---- MODULE Spec2Model ----
(***************************************************************************)
(* A model of dissect.ffs (src/dissect/ffs/ffs.py): the superblock         *)
(* locator, the inode cache, path resolution, the directory iterator and   *)
(* the run-list builder.  Each area has a specification of its own over a  *)
(* shared set of variables; a specification leaves the variables of the    *)
(* other areas at their idle values.                                       *)
(***************************************************************************)
EXTENDS Integers, Sequences, FiniteSets, TLC

VARIABLES
    \* --- superblock locator (FFS.__init__, FFS.read_sb)
    fh_sb,      \* what decoding a superblock at each candidate offset gives
    ffs,        \* the volume under construction: outcome, sb, geometry
    seeks,      \* the offsets FFS.read_sb has seeked to, in order
    \* --- block walk and run-list builder (INode._iter_blocks, INode.dataruns)
    r_sb,       \* superblock geometry: fs_frag, fs_fsize, fs_bsize, fs_nindir
    r_dinode,   \* the on-disk inode: di_size, di_db, di_ib
    r_disk,     \* pointer blocks of the byte source, by fragment address
    r_runlist,  \* INode._runlist: None, or the memoized run list
    r_handle,   \* the INode handle: _type hint, cached record, reads, builds
    r_reads,    \* the pointer arrays read from the source, in order
    r_ret,      \* None, or the last accessor called and what it returned
    \* --- directory iterator (INode.iterdir as a generator)
    d_inode,    \* the handle iterated: inum, type, size
    d_recs,     \* the records of the directory data, back to back from offset 0
    d_pc,       \* "start", "yielded", "done" (StopIteration) or the error raised
    d_offset,   \* the local offset
    d_k,        \* the position in d_recs of the record at d_offset
    d_yield,    \* the fs.inode(...) requests yielded so far
    d_log,      \* the log.critical calls made
    d_reads,    \* the offsets at which a record header was read
    \* --- volume: inode cache, handles, path resolution
    fs_img,     \* the image: per inum the on-disk mode, size, data
    fs_vol,     \* the FFS object: inode cache, handles made, calls served, log
    fs_start,   \* None, or a handle got earlier to start a lookup from
    fs_ret,     \* None, or what the last operation did and returned
    fs_n,       \* operations performed
    \* --- cylinder groups: FFS.iter_inodes as a generator, INode._read_inode
    i_sb,       \* the superblock fields the inode arithmetic uses
    i_fh,       \* the byte source: group headers and bitmap bytes by offset
    i_pc,       \* "start", "yielded", "done" (StopIteration) or the error raised
    i_inum,     \* the loop variable inum
    i_cur,      \* None, or cur_cg: the CylinderGroup made last
    i_out,      \* the inums of the handles yielded so far
    i_read,     \* None, or the inum and offset of the last _read_inode
    \* --- the byte source's cursor, shared by everything on one volume
    c_pos,      \* the position of fh: where the next fh.read() reads
    c_walk      \* an INode._iter_blocks generator: its frames and its yields

sbVars == <<fh_sb, ffs, seeks>>
runVars == <<r_sb, r_dinode, r_disk, r_runlist, r_handle, r_reads, r_ret>>
dirVars == <<d_inode, d_recs, d_pc, d_offset, d_k, d_yield, d_log, d_reads>>
fsVars == <<fs_img, fs_vol, fs_start, fs_ret, fs_n>>
inoVars == <<i_sb, i_fh, i_pc, i_inum, i_cur, i_out, i_read>>
curVars == <<c_pos, c_walk>>
vars == <<sbVars, runVars, dirVars, fsVars, inoVars, curVars>>

(***************************************************************************)
(* Python's None and optional values: <<>> is None, <<v>> is the value v.  *)
(***************************************************************************)
None == <<>>
Some(v) == <<v>>
IsNone(o) == Len(o) = 0
Val(o) == o[1]

(***************************************************************************)
(* Constants of c_ffs.py                                                   *)
(***************************************************************************)
SBLOCK_FLOPPY == 0
SBLOCK_UFS1 == 8192
SBLOCK_UFS2 == 65536
SBLOCK_PIGGY == 262144
SBLOCKSIZE == 8192
MINBSIZE == 4096
MAXBSIZE == 65536
FS_UFS1_MAGIC == 72020
FS_UFS2_MAGIC == 424935705
FS_BAD_MAGIC == 429262856
UFS_ROOTINO == 2

SBLOCKSEARCH == <<SBLOCK_UFS2, SBLOCK_UFS1, SBLOCK_FLOPPY, SBLOCK_PIGGY>>

(***************************************************************************)
(* Superblock locator                                                      *)
(***************************************************************************)
\* What c_ffs.fs(fh) gives at one offset: a decode failure (decodes = FALSE,
\* the source is too short there) or a record of the fields read_sb and
\* __init__ look at.
SbBaseline ==
    [decodes |-> TRUE, fs_magic |-> FS_UFS2_MAGIC, fs_ncg |-> 1,
     fs_bsize |-> 32768, fs_sbsize |-> SBLOCKSIZE, fs_inopb |-> 128]

SbFieldValues ==
    [decodes : BOOLEAN,
     fs_magic : {FS_UFS1_MAGIC, FS_UFS2_MAGIC, FS_BAD_MAGIC},
     fs_ncg : {0, 1},
     fs_bsize : {MINBSIZE - 1, MINBSIZE, 32768, MAXBSIZE, MAXBSIZE + 1},
     fs_sbsize : {SBLOCKSIZE, SBLOCKSIZE + 1},
     fs_inopb : {0, 128}]

SbFields == {"decodes", "fs_magic", "fs_ncg", "fs_bsize", "fs_sbsize", "fs_inopb"}

\* The candidates a probe may meet: the baseline superblock with at most one
\* field changed.
SbCandidates ==
    {c \in SbFieldValues :
        Cardinality({f \in SbFields : c[f] # SbBaseline[f]}) <= 1}

\* FFS.read_sb: seek, decode (an exception gives None), check magic and sizes.
read_sb_noBsizeUpper(fh, offset) ==
    LET sb == fh[offset]
    IN  IF ~sb.decodes THEN None
        ELSE IF sb.fs_magic \notin {FS_UFS1_MAGIC, FS_UFS2_MAGIC} THEN None
        ELSE IF sb.fs_ncg < 1 \/ ~(MINBSIZE <= sb.fs_bsize)
                \/ sb.fs_sbsize > SBLOCKSIZE THEN None
        ELSE Some(sb)

read_sb(fh, offset) ==
    LET sb == fh[offset]
    IN  IF ~sb.decodes THEN None
        ELSE IF sb.fs_magic \notin {FS_UFS1_MAGIC, FS_UFS2_MAGIC} THEN None
        ELSE IF sb.fs_ncg < 1
                \/ ~(MINBSIZE <= sb.fs_bsize /\ sb.fs_bsize <= MAXBSIZE)
                \/ sb.fs_sbsize > SBLOCKSIZE THEN None
        ELSE Some(sb)

\* The for/else loop of FFS.__init__ from position i of SBLOCKSEARCH on:
\* the offsets probed and the superblock found (None: the else branch).
RECURSIVE ProbeFrom(_, _)
ProbeFrom(fh, i) ==
    IF i > Len(SBLOCKSEARCH) THEN [probed |-> <<>>, sb |-> None]
    ELSE LET sb == read_sb(fh, SBLOCKSEARCH[i])
         IN  IF ~IsNone(sb) THEN [probed |-> <<SBLOCKSEARCH[i]>>, sb |-> sb]
             ELSE LET rest == ProbeFrom(fh, i + 1)
                  IN  [probed |-> <<SBLOCKSEARCH[i]>> \o rest.probed,
                       sb |-> rest.sb]

NewFFS == [pc |-> "new", sb |-> None, version |-> 0, block_size |-> 0,
           inode_size |-> 0, sb_offset |-> -1]

\* FFS.__init__ as a whole: probe, then derive version and geometry.
\* fs_bsize // fs_inopb raises ZeroDivisionError when fs_inopb is 0.
FFS_init ==
    /\ ffs.pc = "new"
    /\ LET p == ProbeFrom(fh_sb, 1)
       IN  /\ seeks' = p.probed
           /\ ffs' =
                IF IsNone(p.sb)
                THEN [ffs EXCEPT !.pc = "Error"]
                ELSE LET sb == Val(p.sb)
                     IN  IF sb.fs_inopb = 0
                         THEN [ffs EXCEPT !.pc = "ZeroDivisionError",
                                          !.sb = p.sb,
                                          !.sb_offset = p.probed[Len(p.probed)]]
                         ELSE [pc |-> "constructed",
                               sb |-> p.sb,
                               version |-> IF sb.fs_magic = FS_UFS1_MAGIC
                                           THEN 1 ELSE 2,
                               block_size |-> sb.fs_bsize,
                               inode_size |-> sb.fs_bsize \div sb.fs_inopb,
                               sb_offset |-> p.probed[Len(p.probed)]]
    /\ UNCHANGED <<fh_sb, runVars, dirVars, fsVars, inoVars, curVars>>

IdleSB == fh_sb = <<>> /\ ffs = NewFFS /\ seeks = <<>>
IdleRun ==
    /\ r_sb = <<>> /\ r_dinode = <<>> /\ r_disk = <<>> /\ r_runlist = None
    /\ r_handle = <<>> /\ r_reads = <<>> /\ r_ret = None
IdleDir ==
    /\ d_inode = <<>> /\ d_recs = <<>> /\ d_pc = "idle" /\ d_offset = 0
    /\ d_k = 0 /\ d_yield = <<>> /\ d_log = <<>> /\ d_reads = <<>>
IdleIno ==
    /\ i_sb = <<>> /\ i_fh = <<>> /\ i_pc = "idle" /\ i_inum = 0
    /\ i_cur = None /\ i_out = <<>> /\ i_read = None
IdleCur == c_pos = 0 /\ c_walk = <<>>
IdleFS ==
    /\ fs_img = <<>> /\ fs_vol = <<>> /\ fs_start = None /\ fs_ret = None
    /\ fs_n = 0

InitSB ==
    /\ fh_sb \in [{SBLOCKSEARCH[i] : i \in 1..Len(SBLOCKSEARCH)} -> SbCandidates]
    /\ ffs = NewFFS
    /\ seeks = <<>>
    /\ IdleRun /\ IdleDir /\ IdleFS /\ IdleIno /\ IdleCur

NextSB == FFS_init

SpecSB == InitSB /\ [][NextSB]_vars

\* A candidate is valid as the claim and the spec (4.1) define it.
SbValid(c) ==
    /\ c.decodes
    /\ c.fs_magic \in {FS_UFS1_MAGIC, FS_UFS2_MAGIC}
    /\ c.fs_ncg >= 1
    /\ 4096 <= c.fs_bsize /\ c.fs_bsize <= 65536
    /\ c.fs_sbsize <= 8192

ProbeOrder == <<65536, 8192, 0, 262144>>

\* C1: construction probes 65536, 8192, 0, 262144 in that order, stops at and
\* uses the first offset whose candidate is valid, passes over decode
\* failures and invalid candidates, and raises Error exactly when no
\* candidate is valid.
C1_ProbeFirstValid ==
    ffs.pc # "new" =>
        LET valid == {i \in 1..4 : SbValid(fh_sb[ProbeOrder[i]])}
        IN  /\ (ffs.pc = "Error") <=> (valid = {})
            /\ valid = {} => seeks = ProbeOrder
            /\ valid # {} =>
                 LET k == CHOOSE i \in valid : \A j \in valid : i <= j
                 IN  /\ seeks = SubSeq(ProbeOrder, 1, k)
                     /\ ffs.sb = Some(fh_sb[ProbeOrder[k]])
                     /\ ffs.sb_offset = ProbeOrder[k]

\* C1 witness: a decode failure and an invalid candidate were passed over and
\* the third offset's superblock is the one in use.
C1_Witness ==
    /\ ffs.pc = "constructed"
    /\ ~fh_sb[65536].decodes
    /\ fh_sb[8192].decodes /\ ~SbValid(fh_sb[8192])
    /\ ffs.sb_offset = 0
    /\ seeks = <<65536, 8192, 0>>

(***************************************************************************)
(* Block walk and run-list builder                                         *)
(***************************************************************************)
UFS_NDADDR == 12
UFS_NIADDR == 3

\* File types of Python's stat module (S_IFMT values).
S_IFDIR == 16384
S_IFREG == 32768
S_IFLNK == 40960

\* Bounds of the images of this area: pointers per indirect block
\* (fs_nindir, scaled down) and the longest file in blocks.
Nindir == 2
MaxBlocks == 15

RECURSIVE Pow(_, _)
Pow(b, e) == IF e = 0 THEN 1 ELSE b * Pow(b, e - 1)

Min(a, b) == IF a <= b THEN a ELSE b

\* Geometries of the volume: fs_frag fragments of fs_fsize bytes per block.
RunGeoms ==
    {[fs_frag |-> 8, fs_fsize |-> 4096, fs_bsize |-> 32768, fs_nindir |-> Nindir],
     [fs_frag |-> 1, fs_fsize |-> 4096, fs_bsize |-> 4096, fs_nindir |-> Nindir]}

\* --- the images: a file laid out contiguously from DataBase, with the
\* addresses of up to two logical blocks overridden (a sparse block 0, the
\* address fs_frag, or an address far away), under a full tree of pointer
\* blocks.
DataBase(g) == 2000 * g.fs_frag
PtrBase(g) == 1000 * g.fs_frag
FarAddr(g) == 5000 * g.fs_frag
OverrideValues(g) == {0, g.fs_frag, FarAddr(g)}

\* An override has leaf, a function from logical block numbers to the
\* address put there, and zero, the pointer blocks <<level, first logical
\* block>> whose pointer is stored as 0.
LeafOverrides(g, nb) ==
    {<<>>}
    \cup {[p \in {p1} |-> v1] : p1 \in 0..(nb - 1), v1 \in OverrideValues(g)}
    \cup UNION {{[p \in {p1, p2} |-> IF p = p1 THEN v1 ELSE v2] :
                    v1 \in OverrideValues(g), v2 \in OverrideValues(g)} :
                <<p1, p2>> \in {q \in (0..(nb - 1)) \X (0..(nb - 1)) : q[1] < q[2]}}

\* At most two logical blocks overridden, every pointer block present.
Overrides(g, nb) == {[leaf |-> f, zero |-> {}] : f \in LeafOverrides(g, nb)}

Leaf(g, ov, i) ==
    IF i \in DOMAIN ov.leaf THEN ov.leaf[i] ELSE DataBase(g) + i * g.fs_frag

\* First logical block under di_ib[lv - 1].
LevelStart(g, lv) ==
    UFS_NDADDR + (IF lv >= 2 THEN g.fs_nindir ELSE 0)
               + (IF lv >= 3 THEN Pow(g.fs_nindir, 2) ELSE 0)

PtrAddr(g, lv, first) == PtrBase(g) + (lv * 100 + first) * g.fs_frag

\* The pointer blocks of the tree: <<level, first logical block>>.
Subtrees(g) ==
    UNION {{<<lv, LevelStart(g, R) + j * Pow(g.fs_nindir, lv)>> :
               j \in 0..(Pow(g.fs_nindir, R - lv) - 1)} :
           <<R, lv>> \in {q \in (1..UFS_NIADDR) \X (1..UFS_NIADDR) : q[2] <= q[1]}}

\* The pointer stored for the pointer block <<lv, first>>.
Ptr(g, ov, lv, first) ==
    IF <<lv, first>> \in ov.zero THEN 0 ELSE PtrAddr(g, lv, first)

PtrBlock(g, ov, lv, first) ==
    [k \in 1..g.fs_nindir |->
        IF lv = 1 THEN Leaf(g, ov, first + k - 1)
        ELSE Ptr(g, ov, lv - 1, first + (k - 1) * Pow(g.fs_nindir, lv - 1))]

\* What the source holds where no pointer block was written: the words at
\* byte offset 0 (the boot area) and at the addresses those words name.
StrayBase(g) == 7000 * g.fs_frag
StrayBlock(g) == [k \in 1..g.fs_nindir |-> StrayBase(g) + (k - 1) * g.fs_frag]
StrayAddrs(g) == {0} \cup {StrayBlock(g)[k] : k \in 1..g.fs_nindir}

MakeDisk(g, ov) ==
    [a \in {PtrAddr(g, t[1], t[2]) : t \in Subtrees(g)} \cup StrayAddrs(g) |->
        IF a \in StrayAddrs(g) THEN StrayBlock(g)
        ELSE LET t == CHOOSE t \in Subtrees(g) : PtrAddr(g, t[1], t[2]) = a
             IN  PtrBlock(g, ov, t[1], t[2])]

MakeDinode(g, ov, size) ==
    [di_mode |-> S_IFREG + 420,
     di_size |-> size,
     di_db |-> [k \in 1..UFS_NDADDR |-> Leaf(g, ov, k - 1)],
     di_ib |-> [k \in 1..UFS_NIADDR |-> Ptr(g, ov, k, LevelStart(g, k))]]

\* File sizes: from 0 to MaxBlocks blocks, on and just off a block boundary.
FileSizes(g) ==
    {s \in {k * g.fs_bsize + d : k \in 0..MaxBlocks, d \in {0, 1, g.fs_bsize - 1}} :
        s <= MaxBlocks * g.fs_bsize}

NumBlocks(g, size) == (size + (g.fs_bsize - 1)) \div g.fs_bsize

\* --- INode._walk_indirect as the sequence of what the generator does: it
\* yields (block, level), and at level > 0 reads read_blocks pointers from the
\* source at fsbtodb(block) * DEV_BSIZE and walks each with num_blocks
\* passed down unchanged.
WalkYield(block, level) ==
    [ev |-> "yield", block |-> block, level |-> level, n |-> 0, given |-> 0]
WalkRead(block, level, n, num_blocks) ==
    [ev |-> "read", block |-> block, level |-> level, n |-> n, given |-> num_blocks]

SkipYield_never(level2) == FALSE

\* "if level2 != 0: continue"
SkipYield(level2) == level2 # 0

ReadBlocks_full(g, level, num_blocks) == g.fs_nindir

\* read_blocks of _walk_indirect.
ReadBlocks(g, level, num_blocks) ==
    LET addresses_per_block == g.fs_nindir
        max_level_blocks == Pow(addresses_per_block, level)
        blocks_per_nest == max_level_blocks \div addresses_per_block
        read_blocks == (num_blocks + blocks_per_nest - 1) \div blocks_per_nest
    IN  Min(read_blocks, addresses_per_block)

RECURSIVE _walk_indirect(_, _, _, _, _)
RECURSIVE WalkAddrs(_, _, _, _, _, _)
WalkAddrs(g, disk, addrs, k, level, num_blocks) ==
    IF k > Len(addrs) THEN <<>>
    ELSE _walk_indirect(g, disk, addrs[k], level, num_blocks)
         \o WalkAddrs(g, disk, addrs, k + 1, level, num_blocks)

_walk_indirect(g, disk, block, level, num_blocks) ==
    <<WalkYield(block, level)>>
    \o (IF level > 0
        THEN <<WalkRead(block, level, ReadBlocks(g, level, num_blocks), num_blocks)>>
             \o WalkAddrs(g, disk,
                          SubSeq(disk[block], 1, ReadBlocks(g, level, num_blocks)),
                          1, level - 1, num_blocks)
        ELSE <<>>)

\* The inner for loop of _iter_blocks over what one _walk_indirect gives: a
\* yield at level 0 is a data block, and the generator is dropped when
\* num_blocks reaches 0.  acc has the blocks yielded and the reads made, each
\* read with the number of data blocks still to come when it was made.
RECURSIVE IterLevel(_, _, _, _)
IterLevel(events, k, num_blocks, acc) ==
    IF k > Len(events) THEN [blocks |-> acc.blocks, reads |-> acc.reads, left |-> num_blocks]
    ELSE IF events[k].ev = "read"
    THEN IterLevel(events, k + 1, num_blocks,
                   [acc EXCEPT !.reads =
                       Append(@, [block |-> events[k].block, level |-> events[k].level,
                                  n |-> events[k].n, given |-> events[k].given,
                                  left |-> num_blocks])])
    ELSE IF SkipYield(events[k].level)
    THEN IterLevel(events, k + 1, num_blocks, acc)
    ELSE IF num_blocks - 1 = 0
    THEN [blocks |-> Append(acc.blocks, events[k].block), reads |-> acc.reads, left |-> 0]
    ELSE IterLevel(events, k + 1, num_blocks - 1,
                   [acc EXCEPT !.blocks = Append(@, events[k].block)])

\* The loop over di_ib in _iter_blocks from level1 on, with num_blocks left.
RECURSIVE IterIndirect(_, _, _, _, _, _)
IterIndirectNext(g, disk, di, level1, r) ==
    IF r.left = 0 THEN r
    ELSE IterIndirect(g, disk, di, level1 + 1, r.left,
                      [blocks |-> r.blocks, reads |-> r.reads])

IterIndirect(g, disk, di, level1, num_blocks, acc) ==
    IF level1 >= UFS_NIADDR THEN [blocks |-> acc.blocks, reads |-> acc.reads, left |-> num_blocks]
    ELSE IterIndirectNext(g, disk, di, level1,
                          IterLevel(_walk_indirect(g, disk, di.di_ib[level1 + 1],
                                                   level1 + 1, num_blocks),
                                    1, num_blocks, acc))

\* INode._iter_blocks: the block addresses of the file in logical order, and
\* the pointer arrays read on the way.
IterBlocksWalk(g, disk, di) ==
    LET num_blocks == NumBlocks(g, di.di_size)
        num_direct_blocks == Min(num_blocks, UFS_NDADDR)
        blocks == SubSeq(di.di_db, 1, num_direct_blocks)
        rest == num_blocks - num_direct_blocks
    IN  IF rest > 0
        THEN IterIndirect(g, disk, di, 0, rest, [blocks |-> blocks, reads |-> <<>>])
        ELSE [blocks |-> blocks, reads |-> <<>>, left |-> 0]

_iter_blocks(g, disk, di) == IterBlocksWalk(g, disk, di).blocks

\* --- INode.dataruns: the loop body for block k of blocks; a run is
\* <<offset, length>> with offset None for a hole.
RECURSIVE RunLoop(_, _, _, _, _, _)
RunLoop_finalRunInBlocks(g, blocks, k, run_offset, run_size, runs) ==
    IF k > Len(blocks)
    THEN Append(runs, <<run_offset, run_size>>)
    ELSE LET block_num == blocks[k]
         IN  IF IsNone(run_offset)
             THEN RunLoop(g, blocks, k + 1, Some(block_num), run_size, runs)
             ELSE IF block_num = Val(run_offset) + run_size * g.fs_frag
             THEN RunLoop(g, blocks, k + 1, run_offset, run_size + 1, runs)
             ELSE RunLoop(g, blocks, k + 1, Some(block_num), 1,
                          Append(runs,
                                 IF Val(run_offset) = 0
                                 THEN <<None, run_size * g.fs_frag>>
                                 ELSE <<run_offset, run_size * g.fs_frag>>))

RunLoop(g, blocks, k, run_offset, run_size, runs) ==
    IF k > Len(blocks)
    THEN Append(runs, <<run_offset, run_size * g.fs_frag>>)
    ELSE LET block_num == blocks[k]
         IN  IF IsNone(run_offset)
             THEN RunLoop(g, blocks, k + 1, Some(block_num), run_size, runs)
             ELSE IF block_num = Val(run_offset) + run_size * g.fs_frag
             THEN RunLoop(g, blocks, k + 1, run_offset, run_size + 1, runs)
             ELSE RunLoop(g, blocks, k + 1, Some(block_num), 1,
                          Append(runs,
                                 IF Val(run_offset) = 0
                                 THEN <<None, run_size * g.fs_frag>>
                                 ELSE <<run_offset, run_size * g.fs_frag>>))

BuildRuns(g, disk, di) ==
    RunLoop(g, _iter_blocks(g, disk, di), 1, None, 1, <<>>)

\* INode.__init__: a handle with the type hint filetype; nothing is read.
NewHandle(filetype) ==
    [_type |-> filetype, inode_c |-> None, nreads |-> 0, nbuilds |-> 0]

LoadInode_uncached(h, dinode) ==
    [h EXCEPT !.inode_c = Some(dinode), !.nreads = @ + 1]

\* INode.inode (cached_property): _read_inode on first use only.
LoadInode(h, dinode) ==
    IF IsNone(h.inode_c)
    THEN [h EXCEPT !.inode_c = Some(dinode), !.nreads = @ + 1]
    ELSE h

\* "if not self._runlist": None and the empty list both count as not built.
NotRunlist(runlist) == IsNone(runlist) \/ Val(runlist) = <<>>

\* INode.dataruns() as the state change of the handle: the run list is built
\* unless one is memoized; building reads the record (size, di_db, di_ib) and
\* the pointer arrays of the walk.
DoDataruns ==
    IF NotRunlist(r_runlist)
    THEN /\ r_runlist' = Some(BuildRuns(r_sb, r_disk, r_dinode))
         /\ r_reads' = r_reads \o IterBlocksWalk(r_sb, r_disk, r_dinode).reads
         /\ r_handle' = [LoadInode(r_handle, r_dinode) EXCEPT !.nbuilds = @ + 1]
    ELSE UNCHANGED <<r_runlist, r_reads, r_handle>>

\* What an accessor did and returned.
Returned(op, v) ==
    r_ret' = Some([op |-> op, v |-> v,
                   loaded |-> r_handle'.nreads - r_handle.nreads,
                   built |-> r_handle'.nbuilds - r_handle.nbuilds,
                   walked |-> Len(r_reads') - Len(r_reads)])

\* INode.dataruns()
dataruns ==
    /\ r_sb # <<>>
    /\ DoDataruns
    /\ UNCHANGED <<r_sb, r_dinode, r_disk, sbVars, dirVars, fsVars, inoVars, curVars>>
    /\ Returned("dataruns", Val(r_runlist'))

InitRun ==
    /\ r_sb \in RunGeoms
    /\ \E size \in FileSizes(r_sb) :
         \E ov \in Overrides(r_sb, NumBlocks(r_sb, size)) :
            /\ r_dinode = MakeDinode(r_sb, ov, size)
            /\ r_disk = MakeDisk(r_sb, ov)
    /\ r_runlist = None
    /\ r_handle = NewHandle(None) /\ r_reads = <<>> /\ r_ret = None
    /\ IdleSB /\ IdleDir /\ IdleFS /\ IdleIno /\ IdleCur

NextRun == dataruns

SpecRun == InitRun /\ [][NextRun]_vars

\* --- files that reach into the double and triple indirect blocks, with
\* pointer blocks missing.  Bound: the longest such file in blocks.
MaxWalkBlocks == 22

WalkSizes(g) ==
    {s \in {k * g.fs_bsize + d : k \in 0..MaxWalkBlocks, d \in {0, 1}} :
        s <= MaxWalkBlocks * g.fs_bsize}

\* At most one pointer stored as 0 and at most one sparse data block.
WalkOverrides(g, nb) ==
    {[leaf |-> f, zero |-> z] :
        f \in {<<>>} \cup {[p \in {p1} |-> 0] : p1 \in {0, UFS_NDADDR, nb - 1} \cap (0..(nb - 1))},
        z \in {{}} \cup {{t} : t \in Subtrees(g)}}

InitWalk ==
    /\ r_sb \in RunGeoms
    /\ \E sz \in WalkSizes(r_sb) :
         \E ov \in WalkOverrides(r_sb, NumBlocks(r_sb, sz)) :
            /\ r_dinode = MakeDinode(r_sb, ov, sz)
            /\ r_disk = MakeDisk(r_sb, ov)
    /\ r_runlist = None
    /\ r_handle = NewHandle(None) /\ r_reads = <<>> /\ r_ret = None
    /\ IdleSB /\ IdleDir /\ IdleFS /\ IdleIno /\ IdleCur

NextWalk == dataruns

SpecWalk == InitWalk /\ [][NextWalk]_vars

\* --- the run-list stream (dissect.util, spec 6): where the stream takes the
\* bytes of fragment f of the file from: None (zeros) under a hole run, else
\* the run's address plus the fragment's position in the run.
RECURSIVE RunSource(_, _, _)
RunSource(runs, i, f) ==
    IF i > Len(runs) THEN Some(-1)
    ELSE IF f < runs[i][2]
         THEN (IF IsNone(runs[i][1]) THEN None ELSE Some(Val(runs[i][1]) + f))
         ELSE RunSource(runs, i + 1, f - runs[i][2])

RECURSIVE RunTotal(_, _)
RunTotal(runs, i) == IF i > Len(runs) THEN 0 ELSE runs[i][2] + RunTotal(runs, i + 1)

r_blocks == _iter_blocks(r_sb, r_disk, r_dinode)

\* C8: every sparse logical block (address 0), at any position including the
\* last, lies under a hole run, so the stream reads zeros for it; and a file
\* with one sparse block between allocated blocks has a hole run of exactly
\* fs_frag fragments.
C8_SparseBlocksAreHoles ==
    ~IsNone(r_runlist) =>
        LET runs == Val(r_runlist)
        IN  /\ \A k \in 1..Len(r_blocks) :
                 r_blocks[k] = 0 =>
                    \A f \in 0..(r_sb.fs_frag - 1) :
                       IsNone(RunSource(runs, 1, (k - 1) * r_sb.fs_frag + f))
            /\ (Len(r_blocks) = 3 /\ r_blocks[1] # 0 /\ r_blocks[2] = 0
                  /\ r_blocks[3] # 0) =>
                 \E i \in 1..Len(runs) : runs[i] = <<None, r_sb.fs_frag>>

\* C9 as claimed: for any inode, size 0 included, the run list's length in
\* bytes is >= size and < size + block_size.
C9_TotalWithinSlack ==
    ~IsNone(r_runlist) =>
        LET bytes == RunTotal(Val(r_runlist), 1) * r_sb.fs_fsize
        IN  /\ bytes >= r_dinode.di_size
            /\ bytes < r_dinode.di_size + r_sb.fs_bsize

\* C9 amended: for an inode of size > 0 the run list's length in bytes is
\* >= size and < size + block_size; for an inode of size 0 the run list is
\* the single run (None, fs_frag), exactly one block long.
C9_TotalWithinSlackNonEmpty ==
    ~IsNone(r_runlist) =>
        LET bytes == RunTotal(Val(r_runlist), 1) * r_sb.fs_fsize
        IN  /\ r_dinode.di_size > 0 =>
                 /\ bytes >= r_dinode.di_size
                 /\ bytes < r_dinode.di_size + r_sb.fs_bsize
            /\ r_dinode.di_size = 0 =>
                 /\ Val(r_runlist) = <<(<<None, r_sb.fs_frag>>)>>
                 /\ bytes = r_sb.fs_bsize

\* C9 witness: a run list of several runs, one a hole, built for a file that
\* reaches into the indirect blocks and ends off a block boundary.
C9_Witness ==
    /\ ~IsNone(r_runlist)
    /\ Len(Val(r_runlist)) >= 3
    /\ \E i \in 1..Len(Val(r_runlist)) : IsNone(Val(r_runlist)[i][1])
    /\ r_dinode.di_size > UFS_NDADDR * r_sb.fs_bsize
    /\ r_dinode.di_size % r_sb.fs_bsize # 0

\* --- the block tree read on its own: the address that logical block i has
\* by the pointers of the record and the pointer blocks of the source.
w_nindir == r_sb.fs_nindir
w_blocks == IterBlocksWalk(r_sb, r_disk, r_dinode).blocks
w_num_blocks == (r_dinode.di_size + r_sb.fs_bsize - 1) \div r_sb.fs_bsize
w_root(i) ==
    IF i < UFS_NDADDR + w_nindir THEN 1
    ELSE IF i < UFS_NDADDR + w_nindir + w_nindir * w_nindir THEN 2 ELSE 3
w_first(lv) ==
    IF lv = 1 THEN UFS_NDADDR
    ELSE IF lv = 2 THEN UFS_NDADDR + w_nindir
    ELSE UFS_NDADDR + w_nindir + w_nindir * w_nindir

RECURSIVE Descend(_, _, _)
\* From the pointer block b of level lv, the address of its j-th data block.
Descend(b, lv, j) ==
    IF lv = 0 THEN b
    ELSE Descend(r_disk[b][j \div Pow(w_nindir, lv - 1) + 1], lv - 1,
                 j % Pow(w_nindir, lv - 1))

RECURSIVE DescendSparse(_, _, _)
\* The same where a pointer of 0 stands for a sparse region.
DescendSparse(b, lv, j) ==
    IF lv = 0 \/ b = 0 THEN b
    ELSE DescendSparse(r_disk[b][j \div Pow(w_nindir, lv - 1) + 1], lv - 1,
                       j % Pow(w_nindir, lv - 1))

w_leaf(i) ==
    IF i < UFS_NDADDR THEN r_dinode.di_db[i + 1]
    ELSE Descend(r_dinode.di_ib[w_root(i)], w_root(i), i - w_first(w_root(i)))
w_leaf_sparse(i) ==
    IF i < UFS_NDADDR THEN r_dinode.di_db[i + 1]
    ELSE DescendSparse(r_dinode.di_ib[w_root(i)], w_root(i), i - w_first(w_root(i)))
w_pointers ==
    {r_dinode.di_ib[k] : k \in 1..UFS_NIADDR}
    \cup {PtrAddr(r_sb, t[1], t[2]) : t \in Subtrees(r_sb)}
w_all_present ==
    /\ \A k \in 1..UFS_NIADDR : r_dinode.di_ib[k] # 0
    /\ \A t \in Subtrees(r_sb) : t[1] > 1 =>
          \A k \in 1..w_nindir : r_disk[PtrAddr(r_sb, t[1], t[2])][k] # 0

\* C16: _iter_blocks yields exactly num_blocks = ceil(size / bsize)
\* addresses in file-logical order: the first min(num_blocks, 12) of di_db,
\* then the data addresses under di_ib[0], di_ib[1], di_ib[2] in that order;
\* and no pointer block's address is among them.
C16_LogicalOrder ==
    ~IsNone(r_runlist) =>
        /\ Len(w_blocks) = w_num_blocks
        /\ \A i \in 0..(w_num_blocks - 1) : w_blocks[i + 1] = w_leaf(i)
        /\ w_all_present => \A k \in 1..Len(w_blocks) : w_blocks[k] \notin w_pointers

\* C16 witness: the blocks of a file that ends in the triple indirect tree
\* were enumerated, with every pointer block present.
C16_Witness ==
    /\ ~IsNone(r_runlist)
    /\ w_all_present
    /\ w_num_blocks > UFS_NDADDR + w_nindir + w_nindir * w_nindir
    /\ Len(w_blocks) = w_num_blocks
    /\ Len(r_reads) >= 6

\* C17: a pointer of 0 (di_ib[k], or one read from a pointer block) stands
\* for a sparse region: every logical block under it is enumerated with
\* address 0, and no pointer array is read at byte offset 0 of the source.
C17_ZeroPointerIsSparse ==
    ~IsNone(r_runlist) =>
        /\ \A i \in 0..(w_num_blocks - 1) : w_blocks[i + 1] = w_leaf_sparse(i)
        /\ \A k \in 1..Len(r_reads) : r_reads[k].block # 0

\* The slots that cover m data blocks from a pointer block of level lv.
w_need(lv, m) ==
    LET per == Pow(w_nindir, lv - 1)
        q == (m + per - 1) \div per
    IN  IF q < w_nindir THEN q ELSE w_nindir

\* C18 as claimed: every read of a pointer block, nested ones included, takes
\* min(ceil(remaining / nindir^(level - 1)), nindir) slots, remaining being
\* the data blocks still to be yielded when the read is made.
C18_ReadsOnlyNeededSlots ==
    ~IsNone(r_runlist) =>
        \A k \in 1..Len(r_reads) :
            r_reads[k].n = w_need(r_reads[k].level, r_reads[k].left)

\* C18 amended: every read takes min(ceil(N / nindir^(level - 1)), nindir)
\* slots, N being the data blocks that remained when the walk of the current
\* di_ib entry began: the slots needed at that time for the block di_ib
\* points to, and for a nested block at least the slots needed and never
\* more than nindir.
C18_ReadsSlotsForWalkStart ==
    ~IsNone(r_runlist) =>
        \A k \in 1..Len(r_reads) :
            /\ r_reads[k].n = w_need(r_reads[k].level, r_reads[k].given)
            /\ r_reads[k].given >= r_reads[k].left
            /\ r_reads[k].n >= w_need(r_reads[k].level, r_reads[k].left)
            /\ r_reads[k].n <= w_nindir
            /\ (\A j \in 1..(k - 1) : r_reads[j].level # r_reads[k].level) =>
                  r_reads[k].given = r_reads[k].left

\* C18 witness: below the triple indirect pointer a nested pointer block was
\* read with more slots than the remaining blocks need.
C18_Witness ==
    /\ ~IsNone(r_runlist)
    /\ \E k \in 1..Len(r_reads) : r_reads[k].level = 3
    /\ \E k \in 1..Len(r_reads) :
          /\ r_reads[k].level = 1
          /\ r_reads[k].n > w_need(1, r_reads[k].left)

\* A run (offset, n) read back as n / frag block addresses, a hole as zeros.
ExpandRun(run, frag) ==
    [j \in 1..(run[2] \div frag) |->
        IF IsNone(run[1]) THEN 0 ELSE Val(run[1]) + (j - 1) * frag]

RECURSIVE ExpandRuns(_, _, _)
ExpandRuns(runs, i, frag) ==
    IF i > Len(runs) THEN <<>>
    ELSE ExpandRun(runs[i], frag) \o ExpandRuns(runs, i + 1, frag)

\* C20: for a file of at least one block, the runs of dataruns(), each read
\* back as n / frag block addresses frag apart (a hole as zeros), give the
\* sequence of _iter_blocks again; an allocated block after a sparse one
\* stays out of the hole run.
C20_RunsExpandToBlocks ==
    ~IsNone(r_runlist) /\ r_blocks # <<>> =>
        ExpandRuns(Val(r_runlist), 1, r_sb.fs_frag) = r_blocks

(***************************************************************************)
(* Directory iterator                                                      *)
(***************************************************************************)
\* Bound of the images of this area: the records laid out in a directory.
MaxRecs == 3

\* The bytes past the last record laid out read as zeros.
ZeroRec == [d_ino |-> 0, d_reclen |-> 0, d_type |-> 0, d_name |-> <<>>]

\* struct direct, with the name read after it: a string is the sequence of
\* its characters, and d_namlen is Len of d_name.
RecChoices ==
    {[d_ino |-> e[1], d_reclen |-> l, d_type |-> e[2], d_name |-> e[3]] :
        e \in {<<3, 4, <<"a">>>>, <<4, 8, <<"b">>>>}, l \in {0, 8, 12, 16}}

Chains == UNION {[1..n -> RecChoices] : n \in 0..MaxRecs}

\* The offset of record k of a chain: the record lengths before it.
RECURSIVE RecOffset(_, _)
RecOffset(recs, k) ==
    IF k <= 1 THEN 0 ELSE RecOffset(recs, k - 1) + recs[k - 1].d_reclen

\* Directory sizes (di_size): 0, and around every record boundary plus 8.
DirSizes(recs) ==
    {0} \cup {RecOffset(recs, k) + 8 + d : k \in 1..(Len(recs) + 1), d \in {-1, 0, 1}}

\* c_ffs.direct(buf) and buf.read(d_namlen) at the record in position k.
ReadRec(recs, k) == IF k <= Len(recs) THEN recs[k] ELSE ZeroRec

\* The loop condition of iterdir.
LoopGuard_atMost(offset, size) == offset <= size - 8
LoopGuard_noHeader(offset, size) == offset < size
LoopGuard(offset, size) == offset < size - 8

\* The arguments of self.fs.inode(d_ino, dname, dtype, parent=self): npos
\* positional arguments, the keyword arguments kws, and the value each
\* parameter of FFS.inode gets (None by default).
EntryRequest(self, dirent) ==
    [npos |-> 3, kws |-> <<"parent">>,
     inum |-> dirent.d_ino, name |-> Some(dirent.d_name),
     filetype |-> Some(dirent.d_type * 4096), parent |-> Some(self)]

\* The critical log call: its arguments after the format string.
ZeroLenLog_none(self, offset) == <<>>
ZeroLenLog(self, offset) == <<[inode |-> self, offset |-> offset]>>

\* One resumption of the generator: from the start, or from after the last
\* yield (offset += d_reclen; buf.seek(offset)), to the next yield, to the
\* return on a zero-length record, or to the end of the loop.
iterdir_step ==
    /\ d_pc \in {"start", "yielded"}
    /\ IF d_pc = "start" /\ d_inode.type # S_IFDIR
       THEN /\ d_pc' = "NotADirectoryError"
            /\ UNCHANGED <<d_offset, d_k, d_yield, d_log, d_reads>>
       ELSE LET offset == IF d_pc = "start" THEN 0
                          ELSE d_offset + ReadRec(d_recs, d_k).d_reclen
                k == IF d_pc = "start" THEN 1 ELSE d_k + 1
                dirent == ReadRec(d_recs, k)
            IN  /\ d_offset' = offset
                /\ d_k' = k
                /\ IF ~LoopGuard(offset, d_inode.size)
                   THEN /\ d_pc' = "done"
                        /\ UNCHANGED <<d_yield, d_log, d_reads>>
                   ELSE /\ d_reads' = Append(d_reads, offset)
                        /\ IF dirent.d_reclen = 0
                           THEN /\ d_log' = d_log \o ZeroLenLog(d_inode.inum, offset)
                                /\ d_pc' = "done"
                                /\ UNCHANGED d_yield
                           ELSE /\ d_yield' = Append(d_yield,
                                                     EntryRequest(d_inode.inum, dirent))
                                /\ d_pc' = "yielded"
                                /\ UNCHANGED d_log
    /\ UNCHANGED <<d_inode, d_recs>>

\* One next() on iterdir() with nothing else going on.
iterdir_next ==
    iterdir_step /\ UNCHANGED <<sbVars, runVars, fsVars, inoVars, curVars>>

InitDir ==
    /\ d_recs \in Chains
    /\ \E size \in DirSizes(d_recs), type \in {S_IFDIR, S_IFREG}, inum \in {1, 2} :
         d_inode = [inum |-> inum, type |-> type, size |-> size]
    /\ d_pc = "start"
    /\ d_offset = 0
    /\ d_k = 0
    /\ d_yield = <<>>
    /\ d_log = <<>>
    /\ d_reads = <<>>
    /\ IdleSB /\ IdleRun /\ IdleFS /\ IdleIno /\ IdleCur

NextDir == iterdir_next

\* The consumer of the generator calls next() until it stops.
SpecDir == InitDir /\ [][NextDir]_vars /\ WF_vars(NextDir)

d_ended == d_pc \in {"done", "NotADirectoryError"}

\* The records read so far that have d_reclen = 0 (positions in d_recs).
d_zeroRead == {i \in 1..Len(d_reads) : ReadRec(d_recs, i).d_reclen = 0}

\* C6: when iterdir reads a record with d_reclen 0 it logs one critical
\* message naming the inode and that record's offset, yields nothing for it
\* or after it, ends without raising, and keeps the entries yielded before;
\* without such a record nothing is logged.
C6_ZeroReclenStops ==
    /\ d_zeroRead = {} => d_log = <<>>
    /\ \A i \in d_zeroRead :
         /\ i = Len(d_reads)
         /\ d_pc = "done"
         /\ d_log = <<[inode |-> d_inode.inum, offset |-> RecOffset(d_recs, i)]>>
         /\ d_yield = [j \in 1..(i - 1) |-> EntryRequest(d_inode.inum, d_recs[j])]

\* C6 witness: a zero-length record was read after two entries were yielded.
C6_Witness ==
    /\ d_zeroRead # {}
    /\ Len(d_yield) = 2
    /\ d_log # <<>>
    /\ d_log[1].offset > 0

\* What C7 says of every state, but for how the iteration ends.
C7_Progress ==
    /\ \A i \in 1..Len(d_reads) :
         /\ d_reads[i] = RecOffset(d_recs, i)
         /\ i > 1 => /\ d_reads[i] > d_reads[i - 1]
                     /\ d_reads[i] - d_reads[i - 1] = d_recs[i - 1].d_reclen
                     /\ d_recs[i - 1].d_reclen # 0
    /\ Len(d_yield) <= Len(d_reads)
    /\ \A j \in 1..Len(d_yield) : d_yield[j] = EntryRequest(d_inode.inum, d_recs[j])

d_in_chain(k) == \A j \in 1..(k - 1) : d_recs[j].d_reclen # 0
d_handled(k) ==
    /\ k <= Len(d_reads)
    /\ ReadRec(d_recs, k).d_reclen # 0 =>
          k <= Len(d_yield) /\ d_yield[k] = EntryRequest(d_inode.inum, d_recs[k])

SLASH == <<"/">>

\* str.split("/"): the segments between the separators, empty ones included.
RECURSIVE Split(_)
Split_whole(str) == <<str>>
Split(str) ==
    IF \A i \in 1..Len(str) : str[i] # "/" THEN <<str>>
    ELSE LET i == CHOOSE i \in 1..Len(str) :
                    str[i] = "/" /\ \A j \in 1..(i - 1) : str[j] # "/"
         IN  <<SubSeq(str, 1, i - 1)>> \o Split(SubSeq(str, i + 1, Len(str)))

\* "/".join(names)
RECURSIVE Join(_)
Join(names) ==
    IF Len(names) = 0 THEN <<>>
    ELSE IF Len(names) = 1 THEN names[1]
    ELSE names[1] \o SLASH \o Join(Tail(names))

\* str.startswith("/")
StartsWithSlash(str) == Len(str) >= 1 /\ str[1] = "/"

\* --- directory data: records <<d_ino, d_type, d_name>> laid out as newfs and
\* the kernel do, each d_reclen the name rounded up to 4 bytes, the last
\* record stretched to the end of the 512-byte directory block.
DirRecLen(name) == 8 + 4 * ((Len(name) + 4) \div 4)

RECURSIVE LayOut(_, _, _)
LayOut(entries, k, offset) ==
    IF k > Len(entries) THEN <<>>
    ELSE LET e == entries[k]
             reclen == IF k = Len(entries) THEN 512 - offset ELSE DirRecLen(e[3])
         IN  <<[d_ino |-> e[1], d_reclen |-> reclen, d_type |-> e[2],
                d_name |-> e[3]]>>
             \o LayOut(entries, k + 1, offset + reclen)

\* The d_type of an entry for a file of a type: the value from which
\* iterdir's d_type << 12 gives the type back; 0 where it is not recorded.
IFTODT(type) == type \div 4096
DT_UNKNOWN == IFTODT(0)
DT_DIR == IFTODT(S_IFDIR)
DT_REG == IFTODT(S_IFREG)
DT_LNK == IFTODT(S_IFLNK)

\* An on-disk inode with its data: its bit in the cylinder group's inode
\* bitmap, S_IFMT(di_mode), di_size, the records if the data is read as a
\* directory (a file's 14 zero bytes read as the zero record), the text if
\* it is read as a link.
DiskDir(entries) ==
    [alloc |-> TRUE, mode |-> S_IFDIR, size |-> 512,
     recs |-> LayOut(entries, 1, 0), link |-> <<>>]
DiskFile ==
    [alloc |-> TRUE, mode |-> S_IFREG, size |-> 14, recs |-> <<>>, link |-> <<>>]
DiskLink(target) ==
    [alloc |-> TRUE, mode |-> S_IFLNK, size |-> Len(target), recs |-> <<>>,
     link |-> target]
DiskFree ==
    [alloc |-> FALSE, mode |-> 0, size |-> 0, recs |-> <<>>, link |-> <<>>]

\* The images: root (2) holds d (3, a directory), f (4, a file), l (5, a
\* symlink) and m (6, a symlink to d); d holds f and l again, and k (8, a
\* symlink to "." that no other directory holds).  An image
\* varies in whether the entries carry their type or DT_UNKNOWN, in the
\* target of l, and in one more root entry: none, a second f, an entry with
\* an empty name, an entry with a separator in its name.  Inode 7 is free.
LinkTargets ==
    {<<"d">>, <<"/", "d">>, <<"m">>, <<"l">>, <<"l", "/", "f">>, <<"n">>}
ExtraEntries ==
    {<<>>,
     <<(<<3, DT_DIR, <<"f">>>>)>>,
     <<(<<3, DT_DIR, <<>>>>)>>,
     <<(<<3, DT_DIR, <<"d", "/", "f">>>>)>>}

MakeImage(known, target, extra) ==
    LET T(t) == IF known THEN t ELSE DT_UNKNOWN
    IN  (2 :> DiskDir(<<(<<2, DT_DIR, <<".">>>>), <<2, DT_DIR, <<".", ".">>>>,
                         <<3, T(DT_DIR), <<"d">>>>, <<4, T(DT_REG), <<"f">>>>,
                         <<5, T(DT_LNK), <<"l">>>>, <<6, T(DT_LNK), <<"m">>>>>>
                       \o extra))
        @@ (3 :> DiskDir(<<(<<3, DT_DIR, <<".">>>>), <<2, DT_DIR, <<".", ".">>>>,
                            <<4, T(DT_REG), <<"f">>>>, <<5, T(DT_LNK), <<"l">>>>,
                            <<8, T(DT_LNK), <<"k">>>>>>))
        @@ (4 :> DiskFile)
        @@ (5 :> DiskLink(target))
        @@ (6 :> DiskLink(<<"d">>))
        @@ (7 :> DiskFree)
        @@ (8 :> DiskLink(<<".">>))

Images ==
    {MakeImage(known, target, extra) :
        known \in BOOLEAN, target \in LinkTargets, extra \in ExtraEntries}

(***************************************************************************)
(* Volume: the inode cache and the handles                                 *)
(***************************************************************************)
\* Bound on the nesting of FFS.get inside link_inode inside FFS.get: the
\* interpreter's recursion limit, scaled down.
MaxDepth == 3

\* What a call gives back: the volume after it, and a value or an exception.
Ok(st, v) == [st |-> st, kind |-> "ok", v |-> v]
Raise(st, e, v) == [st |-> st, kind |-> e, v |-> v]

\* INode.__init__; inode_c is the cached_property inode (type, size and link
\* are cached too, and are functions of the hint and of that record), nreads
\* counts the calls of _read_inode.
INode(inum, name, filetype, parent) ==
    [inum |-> inum, name |-> name, _type |-> filetype, parent |-> parent,
     inode_c |-> FALSE, nreads |-> 0, link_inode_c |-> None]

\* The key lru_cache makes of a call: the positional arguments and the
\* keyword arguments as passed, not the parameters they bind to.
MakeKey_inumOnly(req) == <<req.inum>>
MakeKey(req) ==
    <<req.npos, req.kws, req.inum, req.name, req.filetype, req.parent>>

\* self.inode(inum), self.inode(inum, name), self.inode(inum, name, filetype)
Req1(inum) ==
    [npos |-> 1, kws |-> <<>>, inum |-> inum, name |-> None,
     filetype |-> None, parent |-> None]
Req2(inum, name) ==
    [npos |-> 2, kws |-> <<>>, inum |-> inum, name |-> Some(name),
     filetype |-> None, parent |-> None]
Req3(inum, name, filetype) ==
    [npos |-> 3, kws |-> <<>>, inum |-> inum, name |-> name,
     filetype |-> Some(filetype), parent |-> None]

\* The cached FFS.inode: a hit returns the handle stored under the key, a
\* miss makes a handle and stores it (fewer than 4096 keys: no eviction).
\* served lists every call with the handle it returned.
FFS_inode(st, req) ==
    LET key == MakeKey(req)
    IN  IF key \in DOMAIN st.cache
        THEN Ok([st EXCEPT !.served = Append(@, <<req, st.cache[key]>>)],
                st.cache[key])
        ELSE LET id == Len(st.handles) + 1
             IN  Ok([st EXCEPT
                        !.handles = Append(@, INode(req.inum, req.name,
                                                    req.filetype, req.parent)),
                        !.cache = @ @@ (key :> id),
                        !.served = Append(@, <<req, id>>)],
                    id)

\* The end of FFS.__init__: the wrapped inode method and self.root.
NewVolume ==
    LET r == FFS_inode([cache |-> <<>>, handles |-> <<>>, served |-> <<>>,
                        log |-> <<>>, root |-> 0],
                       Req2(UFS_ROOTINO, SLASH))
    IN  [r.st EXCEPT !.root = r.v]

\* The cached_property inode: _read_inode on first use.
INode_inode(st, h) ==
    IF st.handles[h].inode_c THEN st
    ELSE [st EXCEPT !.handles[h].inode_c = TRUE, !.handles[h].nreads = @ + 1]

\* Python truth of an optional integer: None and 0 are false.
Truthy_given(o) == o # None
Truthy(o) == o # None /\ Val(o) # 0

\* INode.type: self._type or stat.S_IFMT(self.inode.di_mode)
INode_type(st, h) ==
    IF Truthy(st.handles[h]._type) THEN Ok(st, Val(st.handles[h]._type))
    ELSE Ok(INode_inode(st, h), fs_img[st.handles[h].inum].mode)

\* INode.link: is_symlink(), then open().read(), which reads self.size.
INode_link(st, h) ==
    LET t == INode_type(st, h)
    IN  IF t.v # S_IFLNK THEN Raise(t.st, "NotASymlinkError", h)
        ELSE Ok(INode_inode(t.st, h), fs_img[st.handles[h].inum].link)

\* INode.iterdir, consumed up to the first entry named want, or to its end if
\* want is None: v is the entries yielded, found the entry that stopped it.
RECURSIVE IterLoop(_, _, _, _, _, _)
IterLoop(st, h, k, offset, out, want) ==
    LET di == fs_img[st.handles[h].inum]
        dirent == ReadRec(di.recs, k)
    IN  IF ~LoopGuard(offset, di.size)
        THEN [st |-> st, kind |-> "ok", v |-> out, found |-> None]
        ELSE IF dirent.d_reclen = 0
        THEN [st |-> [st EXCEPT !.log = @ \o ZeroLenLog(st.handles[h].inum, offset)],
              kind |-> "ok", v |-> out, found |-> None]
        ELSE LET c == FFS_inode(st, EntryRequest(h, dirent))
             IN  IF want # None /\ c.st.handles[c.v].name = want
                 THEN [st |-> c.st, kind |-> "ok", v |-> Append(out, c.v),
                       found |-> Some(c.v)]
                 ELSE IterLoop(c.st, h, k + 1, offset + dirent.d_reclen,
                               Append(out, c.v), want)

INode_iterdir(st, h, want) ==
    LET t == INode_type(st, h)
    IN  IF t.v # S_IFDIR
        THEN [st |-> t.st, kind |-> "NotADirectoryError", v |-> h, found |-> None]
        ELSE IterLoop(INode_inode(t.st, h), h, 1, 0, <<>>, want)

(***************************************************************************)
(* Volume: path resolution                                                 *)
(***************************************************************************)
\* A path argument is <<"int", n>> or <<"str", characters>>.
IntPath(n) == <<"int", n>>
StrPath(str) == <<"str", str>>

\* node = node or self.root (an INode is always true)
StartNode_alwaysRoot(st, node) == st.root
StartNode(st, node) == IF node # None THEN Val(node) ELSE st.root

RECURSIVE FFS_get(_, _, _, _)
RECURSIVE GetLoop(_, _, _, _, _)
RECURSIVE FollowLinks(_, _, _, _, _, _)

\* The cached_property link_inode: the result r of self.fs.get(self.link,
\* relnode) is returned, and kept on the handle if it is not an exception.
LinkInodeResult(h, r) ==
    IF r.kind # "ok" THEN r
    ELSE [r EXCEPT !.st.handles[h].link_inode_c = Some(r.v)]

\* relnode = None if link.startswith("/") else self.parent
RelNode_none(st, h, link) == None
RelNode(st, h, link) ==
    IF StartsWithSlash(link) THEN None ELSE st.handles[h].parent

\* link = self.link; return self.fs.get(self.link, relnode)
LinkInodeOf(h, l, depth) ==
    IF l.kind # "ok" THEN l
    ELSE LinkInodeResult(h,
             FFS_get(l.st, StrPath(l.v), RelNode(l.st, h, l.v), depth + 1))

\* depth is the nesting of the get that link_inode is called from.
INode_link_inode(st, h, depth) ==
    IF st.handles[h].link_inode_c # None
    THEN Ok(st, Val(st.handles[h].link_inode_c))
    ELSE LinkInodeOf(h, INode_link(st, h), depth)

\* node = node.link_inode, with r the outcome of node.link_inode, and the
\* loop again.
\* The loop body without its assignment: the node stays the symlink.
Hop_stay(r, parts, part_num, node, seen, depth) ==
    IF r.kind # "ok" THEN r
    ELSE FollowLinks(r.st, parts, part_num, node, seen \cup {node}, depth)
Hop(r, parts, part_num, node, seen, depth) ==
    IF r.kind # "ok" THEN r
    ELSE FollowLinks(r.st, parts, part_num, r.v, seen \cup {node}, depth)

\* while node._type == stat.S_IFLNK and part_num < len(parts):
\*     node = node.link_inode
\* seen holds the nodes the loop has been at: link_inode is cached, so being
\* at one of them again means the loop never ends.
FollowLinks(st, parts, part_num, node, seen, depth) ==
    IF ~(st.handles[node]._type = Some(S_IFLNK) /\ part_num < Len(parts))
    THEN Ok(st, node)
    ELSE IF node \in seen THEN Raise(st, "hang", node)
    ELSE Hop(INode_link_inode(st, node, depth), parts, part_num, node, seen, depth)

\* for entry in node.iterdir(): ... else: raise FileNotFoundError, with e the
\* outcome of the iteration over node, and on to the next part.
Matched(e, node, parts, k, depth) ==
    IF e.kind # "ok" THEN Raise(e.st, e.kind, e.v)
    ELSE IF e.found = None THEN Raise(e.st, "FileNotFoundError", node)
    ELSE GetLoop(e.st, parts, k + 1, Val(e.found), depth)

\* The lookup of parts[k] in the node f that the while loop ended at.
LookUpIn(f, parts, k, depth) ==
    IF f.kind # "ok" THEN f
    ELSE Matched(INode_iterdir(f.st, f.v, Some(parts[k])), f.v, parts, k, depth)

\* for part_num, part in enumerate(parts): parts[k] is part part_num = k - 1
GetLoop(st, parts, k, node, depth) ==
    IF k > Len(parts) THEN Ok(st, node)
    ELSE IF parts[k] = <<>> THEN GetLoop(st, parts, k + 1, node, depth)
    ELSE LookUpIn(FollowLinks(st, parts, k - 1, node, {}, depth), parts, k, depth)

\* FFS.get(path, node)
FFS_get(st, path, node, depth) ==
    IF depth > MaxDepth THEN Raise(st, "RecursionError", 0)
    ELSE IF path[1] = "int" THEN FFS_inode(st, Req1(path[2]))
    ELSE GetLoop(st, Split(path[2]), 1, StartNode(st, node), depth)

\* The calls of _read_inode made so far, over all handles.
RECURSIVE ReadsOf(_, _)
ReadsOf(handles, k) ==
    IF k > Len(handles) THEN 0 ELSE handles[k].nreads + ReadsOf(handles, k + 1)

\* The end of a call op(arg) with start node node and outcome r: the volume
\* is as the call left it, and fs_ret tells what it returned or raised and
\* how many inode records it read.
Finish(op, arg, node, r) ==
    /\ fs_vol' = r.st
    /\ fs_ret' = Some([op |-> op, arg |-> arg, node |-> node,
                       kind |-> r.kind, v |-> r.v,
                       nreads |-> ReadsOf(r.st.handles, 1)
                                  - ReadsOf(fs_vol.handles, 1)])

(***************************************************************************)
(* Volume: one lookup on a fresh volume                                    *)
(***************************************************************************)
\* The entries iterdir yields from a directory's data, in order.
RECURSIVE Yielded(_, _, _)
Yielded(di, k, offset) ==
    IF ~LoopGuard(offset, di.size) \/ ReadRec(di.recs, k).d_reclen = 0 THEN <<>>
    ELSE <<ReadRec(di.recs, k)>>
         \o Yielded(di, k + 1, offset + ReadRec(di.recs, k).d_reclen)

\* Bound on the length of the descents from the root.
DescentDepth == 2

\* Entry k of a directory is the first of its name there, and its name is a
\* path segment: not empty, no separator in it.
Addressable(ents, k) ==
    /\ ents[k].d_name # <<>>
    /\ \A i \in 1..Len(ents[k].d_name) : ents[k].d_name[i] # "/"
    /\ \A j \in 1..(k - 1) : ents[j].d_name # ents[k].d_name

\* The nodes reached from inum by descending through directory entries, each
\* with the entry names on the way and whether every one was addressable.
RECURSIVE Descents(_, _, _, _)
Descents(inum, names, addressable, depth) ==
    {[names |-> names, inum |-> inum, addressable |-> addressable]}
    \cup IF depth = 0 \/ fs_img[inum].mode # S_IFDIR THEN {}
         ELSE LET ents == Yielded(fs_img[inum], 1, 0)
              IN  UNION {Descents(ents[k].d_ino, Append(names, ents[k].d_name),
                                  addressable /\ Addressable(ents, k), depth - 1) :
                            k \in 1..Len(ents)}

FromRoot == Descents(UFS_ROOTINO, <<>>, TRUE, DescentDepth)

\* Paths looked up: those of the descents, and paths with empty segments,
\* missing names, and symlinks in the middle and at the end.
OtherPaths ==
    {<<"/">>, <<"/", "/">>, <<"n">>, <<"/", "d", "/", "/", "f", "/">>,
     <<"d", "/", "n">>, <<"f", "/", "f">>, <<"l", "/", "f">>,
     <<"l", "/", "l">>, <<"m", "/", "f">>, <<"d", "/", "l", "/", "f">>,
     <<"l", "/", "n">>}
LookupPaths ==
    {StrPath(Join(d.names)) : d \in FromRoot}
    \cup {StrPath(p) : p \in OtherPaths}
    \cup {IntPath(i) : i \in {2, 5, 7}}

\* Start nodes: the handle an earlier ffs.get(...) returned.
StartPaths ==
    {IntPath(3), IntPath(5), StrPath(<<"d">>), StrPath(<<"l">>)}

\* The handle r that ffs.get(p) returned is kept.
Started(r) ==
    /\ r.kind = "ok"
    /\ fs_vol' = r.st
    /\ fs_start' = Some(r.v)

\* start = ffs.get(p) on a fresh volume, kept to start the lookup from.
LookupStart ==
    /\ fs_ret = None /\ fs_start = None
    /\ \E p \in StartPaths :
        Started(FFS_get(fs_vol, p, None, 0))
    /\ fs_n' = fs_n + 1
    /\ UNCHANGED <<fs_img, fs_ret, sbVars, runVars, dirVars, inoVars, curVars>>

\* ffs.get(path), or ffs.get(path, start) with the handle kept.
Lookup ==
    /\ fs_ret = None
    /\ \E path \in LookupPaths :
        Finish("get", path, fs_start, FFS_get(fs_vol, path, fs_start, 0))
    /\ fs_n' = fs_n + 1
    /\ UNCHANGED <<fs_img, fs_start, sbVars, runVars, dirVars, inoVars, curVars>>

InitGet ==
    /\ fs_img \in Images
    /\ fs_vol = NewVolume
    /\ fs_start = None
    /\ fs_ret = None
    /\ fs_n = 0
    /\ IdleSB /\ IdleRun /\ IdleDir /\ IdleIno /\ IdleCur

NextGet == LookupStart \/ Lookup

SpecGet == InitGet /\ [][NextGet]_vars

\* The lookup done, the handle it returned, the inode its start node had.
g_ret == Val(fs_ret)
g_node == fs_vol.handles[g_ret.v]
g_start ==
    IF g_ret.node = None THEN UFS_ROOTINO
    ELSE fs_vol.handles[Val(g_ret.node)].inum
g_segments == SelectSeq(Split(g_ret.arg[2]), LAMBDA part : part # <<>>)

\* C3: in get, a symlink is replaced by its target before a segment is
\* looked up in it, so no lookup is refused because the current node is a
\* symlink; and the entry matched for the last segment is returned as it
\* is, a symlink included.
C3_SymlinkFollowedBeforeLookup ==
    (fs_ret # None /\ g_ret.arg[1] = "str") =>
        /\ g_ret.kind = "NotADirectoryError" =>
                fs_img[g_node.inum].mode # S_IFLNK
        /\ (g_ret.kind = "ok" /\ g_segments # <<>>) =>
                g_node.name = Some(g_segments[Len(g_segments)])

\* The lookup C4 describes, on the image alone: empty segments skipped, the
\* first entry of the name taken, FileNotFoundError when there is none.  It
\* says "other" where the current node is not a directory on disk.
RECURSIVE Walk(_, _, _)
Walk(inum, parts, k) ==
    IF k > Len(parts) THEN <<"ok", inum>>
    ELSE IF parts[k] = <<>> THEN Walk(inum, parts, k + 1)
    ELSE IF fs_img[inum].mode # S_IFDIR THEN <<"other", inum>>
    ELSE LET ents == Yielded(fs_img[inum], 1, 0)
             hits == {i \in 1..Len(ents) : ents[i].d_name = parts[k]}
         IN  IF hits = {} THEN <<"FileNotFoundError", inum>>
             ELSE Walk(ents[CHOOSE i \in hits : \A j \in hits : i <= j].d_ino,
                       parts, k + 1)

\* C4: get with a string skips the empty segments (an all-empty path returns
\* the start node, root by default), moves to the first entry in on-disk
\* order of each segment's name, and raises FileNotFoundError when the
\* current directory has no entry of that name; get with an integer returns
\* the handle of that inum without reading the inode.
C4_LookupByFirstMatch ==
    fs_ret # None =>
        IF g_ret.arg[1] = "int"
        THEN /\ g_ret.kind = "ok"
             /\ g_node.inum = g_ret.arg[2]
             /\ g_node.nreads = 0
        ELSE LET w == Walk(g_start, Split(g_ret.arg[2]), 1)
             IN  /\ w[1] = "ok" => (g_ret.kind = "ok" /\ g_node.inum = w[2])
                 /\ w[1] = "FileNotFoundError" => g_ret.kind = "FileNotFoundError"
                 /\ g_segments = <<>> =>
                        g_ret.v = IF g_ret.node = None THEN fs_vol.root
                                  ELSE Val(g_ret.node)

\* C4 witness: a path with leading, doubled and trailing separators was
\* resolved to the file it names, in a root that holds a further entry.
C4_Witness ==
    /\ fs_ret # None
    /\ g_ret.arg = StrPath(<<"/", "d", "/", "/", "f", "/">>)
    /\ g_ret.node = None
    /\ g_ret.kind = "ok"
    /\ g_node.inum = 4
    /\ Len(fs_img[UFS_ROOTINO].recs) > 6

\* C5 (as stated): for every node reached from the root through directory
\* entries, get of the joined entry names returns a handle of its inum.
C5_RoundTrip ==
    \A d \in FromRoot :
        (fs_ret # None /\ g_ret.node = None
            /\ g_ret.arg = StrPath(Join(d.names))) =>
        (g_ret.kind = "ok" /\ g_node.inum = d.inum)

\* C5 (amended): the round trip holds for the nodes reached through entries
\* that are each the first of their name in their directory and whose
\* names are not empty and hold no separator.
C5_RoundTripAddressable ==
    \A d \in FromRoot :
        (fs_ret # None /\ g_ret.node = None /\ d.addressable
            /\ g_ret.arg = StrPath(Join(d.names))) =>
        (g_ret.kind = "ok" /\ g_node.inum = d.inum)

\* C5 witness: a two-entry descent was resolved back to its inode in an
\* image that also holds an entry that is not addressable.
C5_Witness ==
    /\ fs_ret # None
    /\ g_ret.node = None
    /\ \E d \in FromRoot :
        /\ d.addressable /\ Len(d.names) = 2
        /\ g_ret.arg = StrPath(Join(d.names))
        /\ g_ret.kind = "ok" /\ g_node.inum = d.inum
    /\ \E d \in FromRoot : ~d.addressable

(***************************************************************************)
(* Volume: chains of symlinks                                              *)
(***************************************************************************)
\* Symlink hops on the image alone.  The entry that the lookup of parts
\* from the directory inum ends at, with the directory it was found in
\* (0 when nothing was looked up); symlinks on the way are not followed.
RECURSIVE HopWalk(_, _, _, _)
HopWalk(inum, parent, parts, k) ==
    IF k > Len(parts) THEN [kind |-> "ok", inum |-> inum, parent |-> parent]
    ELSE IF parts[k] = <<>> THEN HopWalk(inum, parent, parts, k + 1)
    ELSE IF fs_img[inum].mode # S_IFDIR
    THEN [kind |-> "other", inum |-> inum, parent |-> parent]
    ELSE LET ents == Yielded(fs_img[inum], 1, 0)
             hits == {i \in 1..Len(ents) : ents[i].d_name = parts[k]}
         IN  IF hits = {}
             THEN [kind |-> "missing", inum |-> inum, parent |-> parent]
             ELSE HopWalk(ents[CHOOSE i \in hits : \A j \in hits : i <= j].d_ino,
                          inum, parts, k + 1)

\* Where following the link of inum, found in directory parent (0: no
\* directory), again and again leads: to a non-symlink ("end"), to a link
\* whose target is not there ("broken"), or on and on ("cycle": more hops
\* than the image has inodes).
RECURSIVE HopChain(_, _, _)
HopChainAt(w, fuel) ==
    IF w.kind # "ok" THEN "broken" ELSE HopChain(w.inum, w.parent, fuel - 1)
HopChain(inum, parent, fuel) ==
    IF fs_img[inum].mode # S_IFLNK THEN "end"
    ELSE IF fuel = 0 THEN "cycle"
    ELSE HopChainAt(HopWalk(IF StartsWithSlash(fs_img[inum].link) \/ parent = 0
                            THEN UFS_ROOTINO ELSE parent,
                            0, Split(fs_img[inum].link), 1),
                    fuel)

\* The chains of the image: of every symlink, from every directory that has
\* an entry for it and from no directory.
g_symlinks == {i \in DOMAIN fs_img : fs_img[i].alloc /\ fs_img[i].mode = S_IFLNK}
g_holders(s) ==
    {d \in DOMAIN fs_img :
        /\ fs_img[d].alloc /\ fs_img[d].mode = S_IFDIR
        /\ \E k \in 1..Len(fs_img[d].recs) : fs_img[d].recs[k].d_ino = s}
g_chains_of_holders ==
    UNION {{HopChain(s, p, Cardinality(DOMAIN fs_img) + 1) :
               p \in {0} \cup g_holders(s)} : s \in g_symlinks}
\* The root's entry for l says that l is a symlink.
g_l_hinted ==
    \E k \in 1..Len(fs_img[UFS_ROOTINO].recs) :
        /\ fs_img[UFS_ROOTINO].recs[k].d_ino = 5
        /\ fs_img[UFS_ROOTINO].recs[k].d_type = DT_LNK

\* C21: on an image where every symlink comes to a non-symlink after finitely
\* many hops, every get(path) ends, with a handle or an exception, and not
\* by exhausting the call stack; a get that does not end has met a chain of
\* symlinks that goes on and on; and nothing limits the hops: with a symlink
\* to itself in the middle of the path, the loop over link_inode never ends.
C21_GetTerminates ==
    fs_ret # None =>
        /\ g_chains_of_holders = {"end"} =>
               g_ret.kind \notin {"hang", "RecursionError"}
        /\ g_ret.kind = "hang" => "cycle" \in g_chains_of_holders
        /\ (/\ g_ret.arg = StrPath(<<"l", "/", "f">>)
            /\ g_ret.node = None
            /\ fs_img[5].link = <<"l">>
            /\ g_l_hinted) => g_ret.kind = "hang"

\* C21 witness: a lookup through a symlink to a symlink to a directory ended
\* with the handle of a file in that directory.
C21_Witness ==
    /\ fs_ret # None
    /\ "cycle" \notin g_chains_of_holders
    /\ HopChain(5, UFS_ROOTINO, Cardinality(DOMAIN fs_img) + 1) = "end"
    /\ g_ret.arg = StrPath(<<"l", "/", "f">>)
    /\ g_ret.node = None
    /\ fs_img[5].link = <<"m">>
    /\ g_ret.kind = "ok"
    /\ g_node.inum = 4
    /\ g_node.parent # None
    /\ fs_vol.handles[Val(g_node.parent)].inum = 3

(***************************************************************************)
(* Volume: one symlink hop on a fresh volume                               *)
(***************************************************************************)
\* How the handle is obtained: by inode number, and by a path lookup.
LinkPaths ==
    {IntPath(3), IntPath(5), IntPath(8), StrPath(<<"l">>), StrPath(<<"m">>),
     StrPath(<<"d">>), StrPath(<<"f">>), StrPath(<<"d", "/", "l">>),
     StrPath(<<"d", "/", "k">>)}

\* node = ffs.get(p) on a fresh volume, kept.
Obtain ==
    /\ fs_ret = None /\ fs_start = None
    /\ \E p \in LinkPaths :
        Started(FFS_get(fs_vol, p, None, 0))
    /\ fs_n' = fs_n + 1
    /\ UNCHANGED <<fs_img, fs_ret, sbVars, runVars, dirVars, inoVars, curVars>>

\* node.link_inode on the handle kept.
LinkOf ==
    /\ fs_ret = None /\ fs_start # None
    /\ Finish("link_inode", Val(fs_start), None,
              INode_link_inode(fs_vol, Val(fs_start), 0))
    /\ fs_n' = fs_n + 1
    /\ UNCHANGED <<fs_img, fs_start, sbVars, runVars, dirVars, inoVars, curVars>>

NextLink == Obtain \/ LinkOf

SpecLink == InitGet /\ [][NextLink]_vars

\* The handle link_inode was read on, its inode on disk, whether the handle
\* is a symlink (by its hint, or by the mode where the hint is 0 or absent).
l_handle == fs_vol.handles[g_ret.arg]
l_dinode == fs_img[l_handle.inum]
l_is_symlink ==
    IF l_handle._type # None /\ Val(l_handle._type) # 0
    THEN Val(l_handle._type) = S_IFLNK
    ELSE l_dinode.mode = S_IFLNK

\* The directories that hold the inode under a name other than . and ..
Containers(inum) ==
    {c \in DOMAIN fs_img :
        /\ fs_img[c].mode = S_IFDIR
        /\ \E k \in 1..Len(fs_img[c].recs) :
            /\ fs_img[c].recs[k].d_ino = inum
            /\ fs_img[c].recs[k].d_name \notin {<<".">>, <<".", ".">>}}

\* The outcome of link_inode is that of the lookup of the target from inum.
ResolvedFrom(inum) ==
    /\ Walk(inum, Split(l_dinode.link), 1)[1] = "ok" =>
        (g_ret.kind = "ok"
            /\ g_node.inum = Walk(inum, Split(l_dinode.link), 1)[2])
    /\ Walk(inum, Split(l_dinode.link), 1)[1] = "FileNotFoundError" =>
        g_ret.kind = "FileNotFoundError"

\* C11 (as stated): link_inode resolves a target starting with '/' from the
\* root and any other target from the directory that contains the symlink,
\* however the handle was obtained; on a handle that is not a symlink it
\* raises NotASymlinkError.
C11_ResolvedFromContainer ==
    (fs_ret # None /\ g_ret.op = "link_inode") =>
        IF ~l_is_symlink THEN g_ret.kind = "NotASymlinkError"
        ELSE IF StartsWithSlash(l_dinode.link) THEN ResolvedFrom(UFS_ROOTINO)
        ELSE \A c \in Containers(l_handle.inum) :
                Containers(l_handle.inum) = {c} => ResolvedFrom(c)

\* C11 (amended): link_inode resolves a target starting with '/' from the
\* root, and any other target from the handle's parent, which is the
\* directory the handle was listed in or looked up in; a handle made
\* without a parent resolves every target from the root.  On a handle that
\* is not a symlink it raises NotASymlinkError.
C11_ResolvedFromParent ==
    (fs_ret # None /\ g_ret.op = "link_inode") =>
        IF ~l_is_symlink THEN g_ret.kind = "NotASymlinkError"
        ELSE IF StartsWithSlash(l_dinode.link) \/ l_handle.parent = None
        THEN ResolvedFrom(UFS_ROOTINO)
        ELSE ResolvedFrom(fs_vol.handles[Val(l_handle.parent)].inum)

\* C11 witness: the symlink k of directory d, looked up as d/k, was resolved
\* from d to d itself.
C11_Witness ==
    /\ fs_ret # None
    /\ g_ret.op = "link_inode"
    /\ l_handle.inum = 8
    /\ l_handle.parent # None
    /\ fs_vol.handles[Val(l_handle.parent)].inum = 3
    /\ g_ret.kind = "ok"
    /\ g_node.inum = 3

(***************************************************************************)
(* One handle: metadata accessors, dataruns and open                       *)
(***************************************************************************)
\* stat.S_IFMT(mode): the file type bits of a 16-bit mode.
S_IFMT(mode) == (mode \div 4096) * 4096

\* Superblocks of this area: a geometry, the width in bytes of an address
\* (ufs1_daddr_t, ufs2_daddr_t) and fs_maxsymlinklen; mkfs writes 0 (old
\* format) or the width of the 15 address slots, and read_sb accepts any.
AccessGeoms ==
    UNION {{[fs_frag |-> g.fs_frag, fs_fsize |-> g.fs_fsize, fs_bsize |-> g.fs_bsize,
             fs_nindir |-> g.fs_nindir, addr_size |-> w, fs_maxsymlinklen |-> m] :
               g \in RunGeoms, m \in {0, (UFS_NDADDR + UFS_NIADDR) * w, 200}} :
           w \in {4, 8}}

AccessSizes(g) ==
    {0, 1, 59, 60, 61, 119, 120, 121, 199, 200, g.fs_bsize + 1,
     UFS_NDADDR * g.fs_bsize + 1}

\* Byte i (0 the lowest) of the little-endian form of a non-negative address.
RECURSIVE LEByte(_, _)
LEByte(v, i) == IF i = 0 THEN v % 256 ELSE LEByte(v \div 256, i - 1)

\* _addr_type[n].write(buf, addrs): the addresses as bytes, one after another.
WriteAddrs(addrs, w) ==
    [k \in 1..(Len(addrs) * w) |-> LEByte(addrs[(k - 1) \div w + 1], (k - 1) % w)]

\* buf.truncate(size) of io.BytesIO: cuts, never extends.
Truncate(bytes, size) == SubSeq(bytes, 1, Min(size, Len(bytes)))

StreamUnit_block(sb) == sb.fs_bsize

\* FFS.fragment_size = fs_fsize, the unit given to RunlistStream.
StreamUnit(sb) == sb.fs_fsize

\* The handle after INode.type: self._type or S_IFMT(self.inode.di_mode).
TypeLoad(h, dinode) == IF Truthy(h._type) THEN h ELSE LoadInode(h, dinode)
TypeOf(h, dinode) == IF Truthy(h._type) THEN Val(h._type) ELSE S_IFMT(dinode.di_mode)

\* INode.type
type ==
    /\ r_handle' = TypeLoad(r_handle, r_dinode)
    /\ UNCHANGED <<r_sb, r_dinode, r_disk, r_runlist, r_reads>>
    /\ UNCHANGED <<sbVars, dirVars, fsVars, inoVars, curVars>>
    /\ Returned("type", TypeOf(r_handle, r_dinode))

\* INode.size
size ==
    /\ r_handle' = LoadInode(r_handle, r_dinode)
    /\ UNCHANGED <<r_sb, r_dinode, r_disk, r_runlist, r_reads>>
    /\ UNCHANGED <<sbVars, dirVars, fsVars, inoVars, curVars>>
    /\ Returned("size", r_dinode.di_size)

\* INode.open(): a short symlink is read from the address slots of the
\* record, everything else through RunlistStream(fh, dataruns(), size,
\* fragment_size).
open ==
    IF TypeOf(r_handle, r_dinode) = S_IFLNK /\ r_dinode.di_size < r_sb.fs_maxsymlinklen
    THEN /\ r_handle' = LoadInode(r_handle, r_dinode)
         /\ UNCHANGED <<r_sb, r_dinode, r_disk, r_runlist, r_reads>>
         /\ UNCHANGED <<sbVars, dirVars, fsVars, inoVars, curVars>>
         /\ Returned("open",
                     [kind |-> "BytesIO",
                      bytes |-> Truncate(WriteAddrs(r_dinode.di_db, r_sb.addr_size)
                                         \o WriteAddrs(r_dinode.di_ib, r_sb.addr_size),
                                         r_dinode.di_size),
                      size |-> r_dinode.di_size])
    ELSE /\ DoDataruns
         /\ UNCHANGED <<r_sb, r_dinode, r_disk, sbVars, dirVars, fsVars, inoVars, curVars>>
         /\ Returned("open",
                     [kind |-> "RunlistStream", runlist |-> Val(r_runlist'),
                      size |-> r_dinode.di_size, block_size |-> StreamUnit(r_sb)])

InitAccess ==
    /\ r_sb \in AccessGeoms
    /\ \E sz \in AccessSizes(r_sb), mode \in {S_IFREG + 420, S_IFLNK + 511} :
          r_dinode = [MakeDinode(r_sb, [leaf |-> <<>>, zero |-> {}], sz)
                        EXCEPT !.di_mode = mode]
    /\ r_disk = MakeDisk(r_sb, [leaf |-> <<>>, zero |-> {}])
    /\ r_runlist = None
    /\ \E hint \in {None, Some(0), Some(S_IFLNK), Some(S_IFREG)} :
          r_handle = NewHandle(hint)
    /\ r_reads = <<>> /\ r_ret = None
    /\ IdleSB /\ IdleDir /\ IdleFS /\ IdleIno /\ IdleCur

NextAccess == type \/ size \/ dataruns \/ open

SpecAccess == InitAccess /\ [][NextAccess]_vars

\* What the last accessor returned, and the address slots of the record.
a_ret == Val(r_ret)
a_opened == r_ret # None /\ a_ret.op = "open"
a_slots == r_dinode.di_db \o r_dinode.di_ib
a_short_symlink ==
    /\ (IF Truthy(r_handle._type) THEN Val(r_handle._type)
        ELSE S_IFMT(r_dinode.di_mode)) = S_IFLNK
    /\ r_dinode.di_size < r_sb.fs_maxsymlinklen
\* The addresses of the images are below 2^24: three bytes, then zeros.
a_slot_byte(k) ==
    LET slot == a_slots[(k - 1) \div r_sb.addr_size + 1]
        i == (k - 1) % r_sb.addr_size
    IN  IF i < 3 THEN (slot \div Pow(256, i)) % 256 ELSE 0
a_inline_bytes(n) ==
    /\ a_ret.v.kind = "BytesIO"
    /\ Len(a_ret.v.bytes) = n
    /\ \A k \in 1..n : a_ret.v.bytes[k] = a_slot_byte(k)
    /\ a_ret.built = 0 /\ a_ret.walked = 0
a_stream ==
    /\ a_ret.v.kind = "RunlistStream"
    /\ a_ret.v.runlist = BuildRuns(r_sb, r_disk, r_dinode)
    /\ a_ret.v.size = r_dinode.di_size
    /\ a_ret.v.block_size = r_sb.fs_fsize
    /\ a_ret.v.block_size * r_sb.fs_frag = r_sb.fs_bsize

\* C13 as claimed: open returns a reader of exactly size bytes; for a symlink
\* with size < maxsymlinklen they are the first size bytes of the 12 direct
\* and 3 indirect address slots and nothing is built or walked; otherwise the
\* reader is the run-list stream over dataruns() in fragment units.
C13_ReaderOfSizeBytes ==
    a_opened =>
        IF a_short_symlink THEN a_inline_bytes(r_dinode.di_size) ELSE a_stream

\* C13 amended: the inline reader holds the first size bytes of the slots
\* when size is at most their width in bytes (15 addresses), and all of the
\* slots and no more when size is larger; the other cases as claimed.
C13_ReaderOfSlotBytes ==
    a_opened =>
        IF a_short_symlink
        THEN /\ a_inline_bytes(Min(r_dinode.di_size,
                                   (UFS_NDADDR + UFS_NIADDR) * r_sb.addr_size))
             /\ a_ret.v.size = r_dinode.di_size
        ELSE a_stream

\* C13 witness: a short symlink whose target ends inside the indirect slots
\* was opened on a handle without a type hint.
C13_Witness ==
    /\ a_opened /\ a_short_symlink
    /\ r_handle._type = None
    /\ r_dinode.di_size > UFS_NDADDR * r_sb.addr_size
    /\ Len(a_ret.v.bytes) = r_dinode.di_size
    /\ \E k \in 1..Len(a_ret.v.bytes) : a_ret.v.bytes[k] # 0

\* C14: on one handle, whatever accessors are called and in whatever order,
\* the record is read from the source at most once and the run list built at
\* most once; the record is read by the first accessor that needs it, the run
\* list built by the first data access, and every later access returns that
\* record's values and that run list.
C14_ReadOnceBuiltOnce ==
    /\ r_handle.nreads <= 1 /\ r_handle.nbuilds <= 1
    /\ r_handle.nreads = (IF IsNone(r_handle.inode_c) THEN 0 ELSE 1)
    /\ r_handle.nbuilds = (IF IsNone(r_runlist) THEN 0 ELSE 1)
    /\ ~IsNone(r_handle.inode_c) => Val(r_handle.inode_c) = r_dinode
    /\ ~IsNone(r_runlist) => Val(r_runlist) = BuildRuns(r_sb, r_disk, r_dinode)
    /\ r_ret # None =>
          /\ a_ret.op = "size" => r_handle.nreads = 1 /\ a_ret.v = r_dinode.di_size
          /\ a_ret.op = "dataruns" =>
                r_handle.nbuilds = 1 /\ r_handle.nreads = 1 /\ a_ret.v = Val(r_runlist)
          /\ a_ret.built = 1 => a_ret.op \in {"dataruns", "open"}

\* C14 witness: a dataruns() call on a handle whose record and run list were
\* already there returned the run list without reading or building anything.
C14_Witness ==
    /\ r_ret # None /\ a_ret.op = "dataruns"
    /\ a_ret.built = 0 /\ a_ret.loaded = 0 /\ a_ret.walked = 0
    /\ r_handle.nreads = 1 /\ r_handle.nbuilds = 1
    /\ Len(r_reads) > 0
    /\ Len(a_ret.v) > 0

(***************************************************************************)
(* Cylinder groups: inode arithmetic, allocation bitmap, iter_inodes       *)
(***************************************************************************)
DEV_BSIZE == 512
CG_MAGIC == 591445

\* Bound of this area: the largest number of cylinder groups (fs_ncg).
MaxNcg == 2

\* Python's << on non-negative operands.
Shl(a, n) == a * Pow(2, n)

RECURSIVE BitAnd(_, _)
\* Python's & on non-negative operands.
BitAnd(a, b) ==
    IF a = 0 \/ b = 0 THEN 0
    ELSE (a % 2) * (b % 2) + 2 * BitAnd(a \div 2, b \div 2)

\* Python's ~ on integers.
BitNot(m) == (0 - m) - 1

\* c & m for c >= 0 and m of either sign (two's complement, unbounded).
BitAndZ(c, m) == IF m >= 0 THEN BitAnd(c, m) ELSE c - BitAnd(c, BitNot(m))

fsbtodb(sb, b) == Shl(b, sb.fs_fsbtodb)

cgbase(sb, c) == sb.fs_fpg * c

cgstart(sb, c) ==
    IF sb.fs_magic = FS_UFS2_MAGIC THEN cgbase(sb, c)
    ELSE cgbase(sb, c) + sb.fs_old_cgoffset * BitAndZ(c, BitNot(sb.fs_old_cgmask))

cgimin(sb, c) == cgstart(sb, c) + sb.fs_iblkno

cgtod(sb, c) == cgstart(sb, c) + sb.fs_cblkno

ino_to_cg(sb, x) == x \div sb.fs_ipg

blkstofrags(sb, blks) == Shl(blks, sb.fs_fragshift)

ino_to_fsba(sb, x) ==
    cgimin(sb, ino_to_cg(sb, x)) + blkstofrags(sb, (x % sb.fs_ipg) \div sb.fs_inopb)

ino_to_fsbo_inGroup(sb, x) == x % sb.fs_ipg

ino_to_fsbo(sb, x) == x % sb.fs_inopb

\* FFS.__init__: inode_size = fs_bsize // fs_inopb.
inode_size(sb) == sb.fs_bsize \div sb.fs_inopb

\* Superblocks of the volumes of this area.  The fragment is 512 << fs_fsbtodb
\* bytes and the block fs_fsize << fs_fragshift bytes, as mkfs writes them.
InoGeoms ==
    {[fs_magic |-> m, fs_ncg |-> ncg, fs_ipg |-> ipg, fs_fpg |-> 16,
      fs_cblkno |-> 2, fs_iblkno |-> 3,
      fs_fsbtodb |-> sh, fs_fragshift |-> fr, fs_inopb |-> inopb,
      fs_fsize |-> 512 * Pow(2, sh), fs_bsize |-> 512 * Pow(2, sh) * Pow(2, fr),
      fs_old_cgoffset |-> og[1], fs_old_cgmask |-> og[2]] :
        m \in {FS_UFS1_MAGIC, FS_UFS2_MAGIC}, ncg \in 1..MaxNcg, ipg \in {8, 12},
        sh \in {0, 1}, fr \in {0, 1}, inopb \in {2, 4},
        og \in {<<0, 0 - 1>>, <<2, 0 - 2>>}}

\* On disk, cylinder group c begins at fragment fs_fpg * c (moved by the
\* rotational offset on UFS1) and its header lies fs_cblkno fragments in.
GroupByteOffset(sb, c) ==
    LET rot == IF sb.fs_magic = FS_UFS1_MAGIC
               THEN sb.fs_old_cgoffset * (IF sb.fs_old_cgmask = 0 - 1 THEN 0 ELSE c % 2)
               ELSE 0
    IN (sb.fs_fpg * c + rot + sb.fs_cblkno) * sb.fs_fsize

\* Allocation bitmaps of one group, as bytes; a group uses the first
\* ceil(fs_ipg / 8) of them.
ByteRows == {<<5, 0>>, <<255, 255>>, <<130, 9>>, <<0, 240>>}
MapBytes(sb) == (sb.fs_ipg + 7) \div 8
IUsedOff == 168

\* The byte source of a volume whose group c has header magic[c] and bitmap
\* rows[c]: headers and bitmap bytes by absolute byte offset.
MakeSource(sb, magic, rows) ==
    LET groups == 0..(sb.fs_ncg - 1)
        at(c) == GroupByteOffset(sb, c)
    IN [hdr  |-> [o \in {at(c) : c \in groups} |->
                    LET c == CHOOSE g \in groups : at(g) = o
                    IN [cg_magic |-> magic[c], cg_cgx |-> c, cg_iusedoff |-> IUsedOff]],
        byte |-> [o \in {at(c) + IUsedOff + k : c \in groups, k \in 0..(MapBytes(sb) - 1)} |->
                    LET c == CHOOSE g \in groups :
                                 o - at(g) - IUsedOff \in 0..(MapBytes(sb) - 1)
                    IN rows[c][o - at(c) - IUsedOff + 1]]]

\* At most one group of an image has a corrupt header.
Magics(sb) ==
    {[c \in 0..(sb.fs_ncg - 1) |-> IF c = bad THEN 0 ELSE CG_MAGIC] :
        bad \in (0 - 1)..(sb.fs_ncg - 1)}

\* CylinderGroup.__init__: the header is decoded at fsbtodb(cgtod(num)) * 512
\* and its magic verified.
CylinderGroup(sb, fh, num) ==
    LET offset == fsbtodb(sb, cgtod(sb, num)) * DEV_BSIZE
    IN IF offset \notin DOMAIN fh.hdr THEN [kind |-> "EOFError"]
       ELSE IF fh.hdr[offset].cg_magic # CG_MAGIC THEN [kind |-> "Error"]
       ELSE [kind |-> "ok", num |-> num, offset |-> offset, cg |-> fh.hdr[offset]]

TestBit_msbFirst(bitmap, bit_offset) == BitAnd(bitmap, Shl(1, 7 - bit_offset)) # 0

\* bitmap & (1 << bit_offset) != 0
TestBit(bitmap, bit_offset) == BitAnd(bitmap, Shl(1, bit_offset)) # 0

\* CylinderGroup.inode_allocated: "IndexError" when the byte is past the end.
inode_allocated(sb, fh, cg, inum) ==
    LET rel_inum == inum % sb.fs_ipg
        byte_offset == rel_inum \div 8
        bit_offset == rel_inum % 8
        offset == cg.offset + cg.cg.cg_iusedoff + byte_offset
    IN IF offset \notin DOMAIN fh.byte THEN "IndexError"
       ELSE IF TestBit(fh.byte[offset], bit_offset) THEN "set" ELSE "clear"

RECURSIVE Scan(_, _, _, _)
\* The body of FFS.iter_inodes from loop variable inum on, up to the next
\* yield, the end of the range or an exception.
Scan(sb, fh, inum, cur) ==
    IF inum >= sb.fs_ncg * sb.fs_ipg
    THEN [pc |-> "done", inum |-> inum, cur |-> cur, out |-> None]
    ELSE LET cgnum == ino_to_cg(sb, inum)
             made == IF cur = None \/ Val(cur).num # cgnum
                     THEN CylinderGroup(sb, fh, cgnum) ELSE Val(cur)
         IN IF made.kind # "ok"
            THEN [pc |-> made.kind, inum |-> inum, cur |-> cur, out |-> None]
            ELSE LET bit == inode_allocated(sb, fh, made, inum)
                 IN IF bit = "IndexError"
                    THEN [pc |-> bit, inum |-> inum, cur |-> Some(made), out |-> None]
                    ELSE IF bit = "set"
                    THEN [pc |-> "yielded", inum |-> inum + 1, cur |-> Some(made),
                          out |-> Some(inum)]
                    ELSE Scan(sb, fh, inum + 1, Some(made))

\* One next() on the generator FFS.iter_inodes().
iter_inodes_next ==
    /\ i_pc \in {"start", "yielded"}
    /\ LET r == Scan(i_sb, i_fh, i_inum, i_cur)
       IN /\ i_pc' = r.pc
          /\ i_inum' = r.inum
          /\ i_cur' = r.cur
          /\ i_out' = IF r.out = None THEN i_out ELSE Append(i_out, Val(r.out))
    /\ UNCHANGED <<i_sb, i_fh, i_read, sbVars, runVars, dirVars, fsVars, curVars>>

InitInodes ==
    /\ i_sb \in InoGeoms
    /\ \E magic \in Magics(i_sb), rows \in [0..(i_sb.fs_ncg - 1) -> ByteRows] :
          i_fh = MakeSource(i_sb, magic, rows)
    /\ i_pc = "start" /\ i_inum = UFS_ROOTINO
    /\ i_cur = None /\ i_out = <<>> /\ i_read = None
    /\ IdleSB /\ IdleRun /\ IdleDir /\ IdleFS /\ IdleCur

NextInodes == iter_inodes_next

SpecInodes == InitInodes /\ [][NextInodes]_vars

\* The byte of the allocation bitmap that holds inum's bit, and the bit, as
\* the volume lays them out.
i_groups == 0..(i_sb.fs_ncg - 1)
i_header(c) == i_fh.hdr[GroupByteOffset(i_sb, c)]
i_bit(i) ==
    LET c == i \div i_sb.fs_ipg
        rel == i % i_sb.fs_ipg
        byte == i_fh.byte[GroupByteOffset(i_sb, c) + i_header(c).cg_iusedoff + rel \div 8]
    IN (byte \div Pow(2, rel % 8)) % 2
i_allocated == {i \in UFS_ROOTINO..(i_sb.fs_ncg * i_sb.fs_ipg - 1) : i_bit(i) = 1}
i_yielded == {i_out[k] : k \in 1..Len(i_out)}

\* C12: iter_inodes yields in strictly ascending order, only inums in
\* [2, ncg * ipg) whose bit (LSB first) is set in their group's bitmap, each at
\* most once, none that it has passed is missing, and when the iteration ends
\* the yielded inums are exactly the allocated ones.
C12_YieldsExactlyAllocated ==
    /\ \A k \in 1..(Len(i_out) - 1) : i_out[k] < i_out[k + 1]
    /\ i_yielded \subseteq i_allocated
    /\ \A i \in i_allocated : i < i_inum => i \in i_yielded
    /\ i_pc = "done" => i_yielded = i_allocated

\* C12 witness: an iteration over two groups has ended having skipped free
\* inums and yielded allocated ones from both groups.
C12_Witness ==
    /\ i_pc = "done"
    /\ i_sb.fs_ncg = 2 /\ i_sb.fs_ipg = 12
    /\ \E k \in 1..Len(i_out) : i_out[k] \div i_sb.fs_ipg = 1
    /\ \E k \in 1..Len(i_out) : i_out[k] \div i_sb.fs_ipg = 0
    /\ \E i \in UFS_ROOTINO..(i_sb.fs_ncg * i_sb.fs_ipg - 1) : i \notin i_yielded
    /\ Len(i_out) > 2

\* INode._read_inode of the handle with number inum: the offset sought before
\* the record is decoded.
ReadOffset(sb, inum) ==
    LET block == fsbtodb(sb, ino_to_fsba(sb, inum))
    IN (block * DEV_BSIZE) + (ino_to_fsbo(sb, inum) * inode_size(sb))

\* INode._read_inode on a handle from FFS.inode(x); the number is not validated.
_read_inode ==
    /\ i_pc = "idle"
    /\ \E x \in 0..(i_sb.fs_ncg * i_sb.fs_ipg) :
          i_read' = Some([inum |-> x, offset |-> ReadOffset(i_sb, x)])
    /\ UNCHANGED <<i_sb, i_fh, i_pc, i_inum, i_cur, i_out, sbVars, runVars, dirVars, fsVars, curVars>>

InitReadInode ==
    /\ i_sb \in InoGeoms
    /\ i_fh = MakeSource(i_sb, [c \in 0..(i_sb.fs_ncg - 1) |-> CG_MAGIC],
                         [c \in 0..(i_sb.fs_ncg - 1) |-> <<255, 255>>])
    /\ i_pc = "idle" /\ i_inum = 0
    /\ i_cur = None /\ i_out = <<>> /\ i_read = None
    /\ IdleSB /\ IdleRun /\ IdleDir /\ IdleFS /\ IdleCur

NextReadInode == _read_inode

SpecReadInode == InitReadInode /\ [][NextReadInode]_vars

\* The offset of inode x written out with products and quotients: the group's
\* first fragment, its inode area, the block of the inode within the area and
\* the slot within the block.
i_group_start(c) ==
    IF i_sb.fs_magic = FS_UFS2_MAGIC THEN i_sb.fs_fpg * c
    ELSE i_sb.fs_fpg * c
         + i_sb.fs_old_cgoffset * (IF i_sb.fs_old_cgmask = 0 - 1 THEN 0 ELSE c % 2)
i_record_offset(x) ==
    LET frag == i_group_start(x \div i_sb.fs_ipg) + i_sb.fs_iblkno
                + ((x % i_sb.fs_ipg) \div i_sb.fs_inopb) * Pow(2, i_sb.fs_fragshift)
    IN frag * Pow(2, i_sb.fs_fsbtodb) * 512
       + (x % i_sb.fs_inopb) * (i_sb.fs_bsize \div i_sb.fs_inopb)

\* C19: the record of inode x is read at ((cgimin(x // ipg) + (((x % ipg) //
\* inopb) << fragshift)) << fsbtodb) * 512 + (x % inopb) * (bsize // inopb),
\* and for every inum in [2, ncg * ipg) the group index is below ncg and the
\* slot below inopb.
C19_RecordOffset ==
    /\ i_read # None => Val(i_read).offset = i_record_offset(Val(i_read).inum)
    /\ \A x \in UFS_ROOTINO..(i_sb.fs_ncg * i_sb.fs_ipg - 1) :
          /\ ino_to_cg(i_sb, x) < i_sb.fs_ncg
          /\ ino_to_fsbo(i_sb, x) < i_sb.fs_inopb

\* C19 witness: a record in the second group of a UFS1 volume with a
\* rotational offset was read, from a slot that is not the first of its block
\* and a block that is not the first of the inode area.
C19_Witness ==
    /\ i_read # None
    /\ i_sb.fs_magic = FS_UFS1_MAGIC /\ i_sb.fs_old_cgoffset = 2
    /\ i_sb.fs_fragshift = 1 /\ i_sb.fs_fsbtodb = 1
    /\ Val(i_read).inum \div i_sb.fs_ipg = 1
    /\ Val(i_read).inum % i_sb.fs_inopb # 0
    /\ (Val(i_read).inum % i_sb.fs_ipg) \div i_sb.fs_inopb > 0
    /\ Val(i_read).offset > 0

(***************************************************************************)
(* Volume: sequences of calls on one volume                                *)
(***************************************************************************)
\* Bound on the number of calls made on a volume.
MaxOps == 3

\* The images with l a link to d, entry types known or unknown.
CacheImages == {MakeImage(known, <<"d">>, <<>>) : known \in BOOLEAN}

\* Calls of ffs.inode by the user: by number alone, with a name as for the
\* root, and with a name (or None) and a filetype hint.
UserRequests ==
    {Req1(i) : i \in {2, 5}}
    \cup {Req2(2, SLASH), Req3(2, Some(SLASH), 0), Req3(5, None, 0),
          Req3(4, None, S_IFDIR)}

CachePaths ==
    {IntPath(2), IntPath(5), IntPath(7), StrPath(<<"d">>),
     StrPath(<<"l", "/", "f">>), StrPath(<<"d", "/", ".", ".">>)}

\* ffs.inode(...)
OpInode ==
    /\ fs_n < MaxOps
    /\ \E req \in UserRequests :
        Finish("inode", req, None, FFS_inode(fs_vol, req))
    /\ fs_n' = fs_n + 1
    /\ UNCHANGED <<fs_img, fs_start, sbVars, runVars, dirVars, inoVars, curVars>>

\* ffs.get(path)
OpGet ==
    /\ fs_n < MaxOps
    /\ \E path \in CachePaths :
        Finish("get", path, None, FFS_get(fs_vol, path, None, 0))
    /\ fs_n' = fs_n + 1
    /\ UNCHANGED <<fs_img, fs_start, sbVars, runVars, dirVars, inoVars, curVars>>

\* handle.type
OpType ==
    /\ fs_n < MaxOps
    /\ \E h \in 1..Len(fs_vol.handles) :
        Finish("type", h, None, INode_type(fs_vol, h))
    /\ fs_n' = fs_n + 1
    /\ UNCHANGED <<fs_img, fs_start, sbVars, runVars, dirVars, inoVars, curVars>>

\* list(handle.iterdir())
OpIterdir ==
    /\ fs_n < MaxOps
    /\ \E h \in 1..Len(fs_vol.handles) :
        Finish("iterdir", h, None, INode_iterdir(fs_vol, h, None))
    /\ fs_n' = fs_n + 1
    /\ UNCHANGED <<fs_img, fs_start, sbVars, runVars, dirVars, inoVars, curVars>>

\* list(ffs.iter_inodes()): self.inode(inum) for every allocated inum from
\* UFS_ROOTINO up, in order.
RECURSIVE IterInodes(_, _, _)
IterInodes(st, inum, out) ==
    IF inum \notin DOMAIN fs_img THEN Ok(st, out)
    ELSE IF ~fs_img[inum].alloc THEN IterInodes(st, inum + 1, out)
    ELSE LET r == FFS_inode(st, Req1(inum))
         IN  IterInodes(r.st, inum + 1, Append(out, r.v))

OpIterInodes ==
    /\ fs_n < MaxOps
    /\ Finish("iter_inodes", 0, None, IterInodes(fs_vol, UFS_ROOTINO, <<>>))
    /\ fs_n' = fs_n + 1
    /\ UNCHANGED <<fs_img, fs_start, sbVars, runVars, dirVars, inoVars, curVars>>

InitCache ==
    /\ fs_img \in CacheImages
    /\ fs_vol = NewVolume
    /\ fs_start = None
    /\ fs_ret = None
    /\ fs_n = 0
    /\ IdleSB /\ IdleRun /\ IdleDir /\ IdleIno /\ IdleCur

NextCache == OpInode \/ OpGet \/ OpType \/ OpIterdir \/ OpIterInodes

SpecCache == InitCache /\ [][NextCache]_vars

\* The call made last and the handle it was made on.
c_ret == Val(fs_ret)
c_handle == fs_vol.handles[c_ret.arg]

\* C2 (as stated): any two requests for the same inode number were served
\* the same handle.
C2_SameInumSameHandle ==
    \A i, j \in 1..Len(fs_vol.served) :
        fs_vol.served[i][1].inum = fs_vol.served[j][1].inum =>
            fs_vol.served[i][2] = fs_vol.served[j][2]

\* C2 (amended): the cache is keyed by the arguments of the call: two
\* requests were served the same handle exactly when they passed the same
\* arguments in the same form, so requests for one inode number that differ
\* in name, filetype hint, parent or form were served different handles.
C2_SameArgumentsSameHandle ==
    \A i, j \in 1..Len(fs_vol.served) :
        (fs_vol.served[i][1] = fs_vol.served[j][1])
            <=> (fs_vol.served[i][2] = fs_vol.served[j][2])

\* C2 witness: one request was made twice, and another request was made for
\* the same inode number with other arguments.
C2_Witness ==
    \E i, j, k \in 1..Len(fs_vol.served) :
        /\ i < j
        /\ fs_vol.served[i] = fs_vol.served[j]
        /\ fs_vol.served[k][1].inum = fs_vol.served[i][1].inum
        /\ fs_vol.served[k][2] # fs_vol.served[i][2]

\* C10 (as stated): type returns the hint without reading the inode
\* whenever a hint was given, 0 included; with no hint it loads the inode
\* and returns the type bits of its mode.
C10_AnyHintReturned ==
    (fs_ret # None /\ c_ret.op = "type") =>
        IF c_handle._type # None
        THEN c_ret.v = Val(c_handle._type) /\ c_ret.nreads = 0
        ELSE c_ret.v = fs_img[c_handle.inum].mode /\ c_handle.inode_c

\* C10 (amended): type returns the hint without reading the inode whenever a
\* hint other than 0 was given; with no hint or the hint 0 it loads the
\* inode and returns the type bits of its mode.
C10_NonZeroHintReturned ==
    (fs_ret # None /\ c_ret.op = "type") =>
        IF c_handle._type # None /\ Val(c_handle._type) # 0
        THEN c_ret.v = Val(c_handle._type) /\ c_ret.nreads = 0
        ELSE c_ret.v = fs_img[c_handle.inum].mode /\ c_handle.inode_c

\* C10 witness: type was read on a handle whose hint is 0, made from a
\* directory entry, and the inode was read for it.
C10_Witness ==
    /\ fs_ret # None
    /\ c_ret.op = "type"
    /\ c_handle._type = Some(0)
    /\ c_handle.parent # None
    /\ c_ret.nreads = 1
    /\ c_ret.v = S_IFLNK

(***************************************************************************)
(* The shared cursor: generators interleaved on one volume                 *)
(***************************************************************************)
SeekTo_relative(pos, offset) == pos + offset

\* fh.seek(offset): the position becomes offset, whatever it was.
SeekTo(pos, offset) == offset

\* sizeof(struct cg), and the width of one block address.
CgSize == 169
AddrWidth(sb) == IF sb.fs_magic = FS_UFS2_MAGIC THEN 8 ELSE 4

\* What the byte source gives to a read at position pos: a group header, one
\* byte of a bitmap, n block addresses; None where the source has no such
\* data, and the stray words where no pointer block was written.
ReadHdr(fh, pos) == IF pos \in DOMAIN fh.hdr THEN Some(fh.hdr[pos]) ELSE None
ReadByte(fh, pos) == IF pos \in DOMAIN fh.byte THEN Some(fh.byte[pos]) ELSE None
ReadPtrs(sb, disk, pos, n) ==
    LET at == {a \in DOMAIN disk : fsbtodb(sb, a) * DEV_BSIZE = pos}
    IN  IF at = {} THEN SubSeq(StrayBlock(sb), 1, n)
        ELSE SubSeq(disk[CHOOSE a \in at : TRUE], 1, n)

\* CylinderGroup.__init__ with the cursor at pos: seek, decode, verify.
CylinderGroupAt(sb, fh, num, pos) ==
    LET offset == fsbtodb(sb, cgtod(sb, num)) * DEV_BSIZE
        at == SeekTo(pos, offset)
        cg == ReadHdr(fh, at)
    IN  IF cg = None THEN [kind |-> "EOFError", pos |-> at]
        ELSE IF Val(cg).cg_magic # CG_MAGIC THEN [kind |-> "Error", pos |-> at + CgSize]
        ELSE [kind |-> "ok", pos |-> at + CgSize,
              made |-> [kind |-> "ok", num |-> num, offset |-> offset, cg |-> Val(cg)]]

\* CylinderGroup.inode_allocated with the cursor at pos: seek, read(1), test.
InodeAllocatedAt(sb, fh, cg, inum, pos) ==
    LET rel_inum == inum % sb.fs_ipg
        byte_offset == rel_inum \div 8
        bit_offset == rel_inum % 8
        offset == cg.offset + cg.cg.cg_iusedoff + byte_offset
        at == SeekTo(pos, offset)
        bitmap == ReadByte(fh, at)
    IN  IF bitmap = None THEN [bit |-> "IndexError", pos |-> at]
        ELSE [bit |-> IF TestBit(Val(bitmap), bit_offset) THEN "set" ELSE "clear",
              pos |-> at + 1]

\* The body of FFS.iter_inodes from loop variable inum on, up to the next
\* yield, the end of the range or an exception, with the cursor at pos.
RECURSIVE ScanAt(_, _, _, _, _)
ScanBit(sb, fh, inum, made, b) ==
    IF b.bit = "IndexError"
    THEN [pc |-> b.bit, inum |-> inum, cur |-> Some(made), out |-> None, pos |-> b.pos]
    ELSE IF b.bit = "set"
    THEN [pc |-> "yielded", inum |-> inum + 1, cur |-> Some(made),
          out |-> Some(inum), pos |-> b.pos]
    ELSE ScanAt(sb, fh, inum + 1, Some(made), b.pos)
ScanGroup(sb, fh, inum, cur, g) ==
    IF g.kind # "ok"
    THEN [pc |-> g.kind, inum |-> inum, cur |-> cur, out |-> None, pos |-> g.pos]
    ELSE ScanBit(sb, fh, inum, g.made, InodeAllocatedAt(sb, fh, g.made, inum, g.pos))
ScanAt(sb, fh, inum, cur, pos) ==
    IF inum >= sb.fs_ncg * sb.fs_ipg
    THEN [pc |-> "done", inum |-> inum, cur |-> cur, out |-> None, pos |-> pos]
    ELSE IF cur = None \/ Val(cur).num # ino_to_cg(sb, inum)
    THEN ScanGroup(sb, fh, inum, cur, CylinderGroupAt(sb, fh, ino_to_cg(sb, inum), pos))
    ELSE ScanBit(sb, fh, inum, Val(cur), InodeAllocatedAt(sb, fh, Val(cur), inum, pos))

\* --- INode._iter_blocks as a generator object.  Its state: where it is
\* (pc), the next direct slot k, num_blocks (left), the loop variable level1,
\* the num_blocks given to the _walk_indirect at work, the nested
\* _walk_indirect generators (stack, innermost last) and the yields (out).
\* A frame of the stack is one _walk_indirect(block, level, given): new, or
\* suspended at its yield, or in its loop over the addresses it read.
NewFrame(block, level) ==
    [block |-> block, level |-> level, st |-> "new", addrs |-> <<>>, idx |-> 0]
NewWalk ==
    [pc |-> "start", k |-> 0, left |-> 0, level1 |-> 0, given |-> 0,
     stack |-> <<>>, out |-> <<>>]
Top(stack) == stack[Len(stack)]
Pop(stack) == SubSeq(stack, 1, Len(stack) - 1)
SetTop(stack, f) == [stack EXCEPT ![Len(stack)] = f]

\* One next(): from where the generator is suspended to its next yield or
\* its end; w is the generator and pos the cursor.
RECURSIVE Resume(_, _, _, _, _)
Resume(sb, disk, di, w, pos) ==
    IF w.pc = "start"
    THEN Resume(sb, disk, di,
                [w EXCEPT !.pc = "direct", !.k = 1,
                          !.left = NumBlocks(sb, di.di_size)
                                   - Min(NumBlocks(sb, di.di_size), UFS_NDADDR)],
                pos)
    ELSE IF w.pc = "direct"
    THEN IF w.k <= Min(NumBlocks(sb, di.di_size), UFS_NDADDR)
         THEN [w |-> [w EXCEPT !.k = @ + 1, !.out = Append(@, di.di_db[w.k])],
               pos |-> pos]
         ELSE IF w.left > 0
         THEN Resume(sb, disk, di,
                     [w EXCEPT !.pc = "indirect", !.level1 = 0, !.given = w.left,
                               !.stack = <<NewFrame(di.di_ib[1], 1)>>],
                     pos)
         ELSE [w |-> [w EXCEPT !.pc = "done"], pos |-> pos]
    ELSE IF w.pc = "yielded"
    THEN \* after "yield block": num_blocks -= 1; if num_blocks == 0: return
         IF w.left - 1 = 0
         THEN [w |-> [w EXCEPT !.pc = "done", !.left = 0], pos |-> pos]
         ELSE Resume(sb, disk, di, [w EXCEPT !.pc = "indirect", !.left = @ - 1], pos)
    ELSE IF w.pc # "indirect" THEN [w |-> w, pos |-> pos]
    ELSE IF w.stack = <<>>
    THEN \* the _walk_indirect of level1 is exhausted: the next level1
         IF w.level1 + 1 >= UFS_NIADDR
         THEN [w |-> [w EXCEPT !.pc = "done"], pos |-> pos]
         ELSE Resume(sb, disk, di,
                     [w EXCEPT !.level1 = @ + 1, !.given = w.left,
                               !.stack = <<NewFrame(di.di_ib[w.level1 + 2],
                                                    w.level1 + 2)>>],
                     pos)
    ELSE IF Top(w.stack).st = "new"
    THEN \* yield block, level
         IF SkipYield(Top(w.stack).level)
         THEN Resume(sb, disk, di,
                     [w EXCEPT !.stack = SetTop(@, [Top(@) EXCEPT !.st = "yielded"])],
                     pos)
         ELSE [w |-> [w EXCEPT !.pc = "yielded",
                               !.stack = SetTop(@, [Top(@) EXCEPT !.st = "yielded"]),
                               !.out = Append(@, Top(w.stack).block)],
               pos |-> pos]
    ELSE IF Top(w.stack).st = "yielded"
    THEN IF Top(w.stack).level > 0
         THEN \* seek to the pointer block, read read_blocks addresses
              Resume(sb, disk, di,
                     [w EXCEPT !.stack = SetTop(@,
                         [Top(@) EXCEPT
                             !.st = "iter", !.idx = 1,
                             !.addrs = ReadPtrs(sb, disk,
                                         SeekTo(pos, fsbtodb(sb, Top(w.stack).block)
                                                     * DEV_BSIZE),
                                         ReadBlocks(sb, Top(w.stack).level, w.given))])],
                     SeekTo(pos, fsbtodb(sb, Top(w.stack).block) * DEV_BSIZE)
                     + ReadBlocks(sb, Top(w.stack).level, w.given) * AddrWidth(sb))
         ELSE Resume(sb, disk, di, [w EXCEPT !.stack = Pop(@)], pos)
    ELSE \* for addr in addresses: yield from _walk_indirect(addr, level - 1, ...)
         IF Top(w.stack).idx <= Len(Top(w.stack).addrs)
         THEN Resume(sb, disk, di,
                     [w EXCEPT !.stack =
                         Append(SetTop(@, [Top(@) EXCEPT !.idx = @ + 1]),
                                NewFrame(Top(w.stack).addrs[Top(w.stack).idx],
                                         Top(w.stack).level - 1))],
                     pos)
         ELSE Resume(sb, disk, di, [w EXCEPT !.stack = Pop(@)], pos)

\* --- the volume: one superblock for the inode arithmetic and the block
\* walk, group headers and bitmaps, one file under pointer blocks, one
\* directory, and the cursor where read_sb or a caller left it.
SharedGeoms ==
    {[fs_magic |-> t[1], fs_ncg |-> ncg, fs_ipg |-> 8, fs_fpg |-> 16,
      fs_cblkno |-> 2, fs_iblkno |-> 3,
      fs_fsbtodb |-> 1, fs_fragshift |-> t[2], fs_inopb |-> 2,
      fs_fsize |-> 1024, fs_bsize |-> 1024 * Pow(2, t[2]), fs_frag |-> Pow(2, t[2]),
      fs_nindir |-> Nindir,
      fs_old_cgoffset |-> 0, fs_old_cgmask |-> 0 - 1] :
        t \in {<<FS_UFS1_MAGIC, 0>>, <<FS_UFS2_MAGIC, 1>>}, ncg \in 1..MaxNcg}
SharedRows == {<<5, 0>>, <<130, 9>>}
\* Files: three blocks; fourteen with the first indirect one sparse; fifteen;
\* as size and override.
SharedFiles(g) ==
    {<<3 * g.fs_bsize, [leaf |-> <<>>, zero |-> {}]>>,
     <<13 * g.fs_bsize + 1, [leaf |-> [p \in {UFS_NDADDR} |-> 0], zero |-> {}]>>,
     <<15 * g.fs_bsize, [leaf |-> <<>>, zero |-> {}]>>}
SharedChains ==
    {c \in Chains : /\ Len(c) = 2
                    /\ c[1].d_reclen = 12 /\ c[1].d_ino = 3
                    /\ c[2].d_reclen = 16 /\ c[2].d_ino = 4}
CursorStarts == {0, SBLOCK_UFS2 + SBLOCKSIZE}

\* Where the data of the directory lies in the byte source.
DirDataOffset(sb) == 3000 * sb.fs_fsize

\* The run-list stream over the directory data serves a read at reader
\* offset o from the byte source at DirDataOffset + o; it may leave the
\* cursor of the byte source behind any part of what it fetched.
RunlistLeaves(sb, total_size, o) ==
    {DirDataOffset(sb) + x : x \in {o + 8, total_size}}

\* One next() on FFS.iter_inodes().
iter_inodes_resume ==
    /\ i_pc \in {"start", "yielded"}
    /\ LET r == ScanAt(i_sb, i_fh, i_inum, i_cur, c_pos)
       IN /\ i_pc' = r.pc
          /\ i_inum' = r.inum
          /\ i_cur' = r.cur
          /\ i_out' = IF r.out = None THEN i_out ELSE Append(i_out, Val(r.out))
          /\ c_pos' = r.pos
    /\ UNCHANGED <<i_sb, i_fh, i_read, c_walk, sbVars, runVars, dirVars, fsVars>>

\* One next() on INode._iter_blocks().
_iter_blocks_resume ==
    /\ c_walk.pc # "done"
    /\ LET r == Resume(r_sb, r_disk, r_dinode, c_walk, c_pos)
       IN /\ c_walk' = r.w
          /\ c_pos' = r.pos
    /\ UNCHANGED <<sbVars, runVars, dirVars, fsVars, inoVars>>

\* One next() on INode.iterdir(), whose reader is a run-list stream.
iterdir_resume ==
    /\ iterdir_step
    /\ IF d_reads' = d_reads THEN c_pos' = c_pos
       ELSE c_pos' \in RunlistLeaves(r_sb, d_inode.size, d_offset')
    /\ UNCHANGED <<c_walk, sbVars, runVars, fsVars, inoVars>>

\* Another operation on the volume: INode._read_inode of some handle.
read_inode_between ==
    /\ \E x \in {UFS_ROOTINO, i_sb.fs_ipg + 1} :
          /\ i_read' = Some([inum |-> x,
                             offset |-> SeekTo(c_pos, ReadOffset(i_sb, x))])
          /\ c_pos' = SeekTo(c_pos, ReadOffset(i_sb, x)) + inode_size(i_sb)
    /\ i_read' # i_read
    /\ UNCHANGED <<i_sb, i_fh, i_pc, i_inum, i_cur, i_out, c_walk,
                   sbVars, runVars, dirVars, fsVars>>

InitShared ==
    /\ i_sb \in SharedGeoms
    /\ r_sb = i_sb
    /\ \E magic \in Magics(i_sb), row \in SharedRows :
          i_fh = MakeSource(i_sb, magic, [c \in 0..(i_sb.fs_ncg - 1) |-> row])
    /\ i_pc = "start" /\ i_inum = UFS_ROOTINO
    /\ i_cur = None /\ i_out = <<>> /\ i_read = None
    /\ \E f \in SharedFiles(r_sb) :
          /\ r_dinode = MakeDinode(r_sb, f[2], f[1])
          /\ r_disk = MakeDisk(r_sb, f[2])
    /\ r_runlist = None
    /\ r_handle = NewHandle(None) /\ r_reads = <<>> /\ r_ret = None
    /\ d_recs \in SharedChains
    /\ d_inode = [inum |-> 2, type |-> S_IFDIR, size |-> 512]
    /\ d_pc = "start" /\ d_offset = 0 /\ d_k = 0
    /\ d_yield = <<>> /\ d_log = <<>> /\ d_reads = <<>>
    /\ c_pos \in CursorStarts
    /\ c_walk = NewWalk
    /\ IdleSB /\ IdleFS

NextShared ==
    \/ iter_inodes_resume
    \/ _iter_blocks_resume
    \/ iterdir_resume
    \/ read_inode_between

SpecShared == InitShared /\ [][NextShared]_vars

\* What each generator yields when nothing else touches the volume, from the
\* contents of the byte source by offset: iter_inodes until it ends or raises,
\* _iter_blocks, iterdir.
RECURSIVE s_inodes_from(_, _, _)
s_inodes_after(out, r) ==
    IF r.pc = "yielded" THEN s_inodes_from(r.inum, r.cur, Append(out, Val(r.out)))
    ELSE [pc |-> r.pc, out |-> out]
s_inodes_from(inum, cur, out) == s_inodes_after(out, Scan(i_sb, i_fh, inum, cur))
s_inodes_alone == s_inodes_from(UFS_ROOTINO, None, <<>>)
s_blocks_alone == _iter_blocks(r_sb, r_disk, r_dinode)
s_entries == Yielded([recs |-> d_recs, size |-> d_inode.size], 1, 0)
s_dir_alone == [k \in 1..Len(s_entries) |-> EntryRequest(d_inode.inum, s_entries[k])]
s_starts(out, whole) == Len(out) <= Len(whole) /\ out = SubSeq(whole, 1, Len(out))

\* C22: with next() calls on iter_inodes, _iter_blocks and iterdir and
\* _read_inode calls interleaved in any order on one volume, from any cursor
\* position, each generator has at every moment yielded the first values of
\* what it yields alone, ends as it ends alone with all of them, and
\* _read_inode reads at the offset of its inode.
C22_InterleavedAsAlone ==
    /\ s_starts(i_out, s_inodes_alone.out)
    /\ i_pc \notin {"start", "yielded"} =>
           i_pc = s_inodes_alone.pc /\ i_out = s_inodes_alone.out
    /\ s_starts(c_walk.out, s_blocks_alone)
    /\ c_walk.pc = "done" => c_walk.out = s_blocks_alone
    /\ s_starts(d_yield, s_dir_alone)
    /\ d_pc \notin {"start", "yielded"} => d_pc = "done" /\ d_yield = s_dir_alone
    /\ i_read # None => Val(i_read).offset = ReadOffset(i_sb, Val(i_read).inum)

\* C22 witness: the three generators are suspended half way at once, the
\* block walk inside the indirect blocks with more to come, a _read_inode was
\* made in between, and the cursor is where the directory's reader left it.
C22_Witness ==
    /\ i_pc = "yielded" /\ Len(i_out) = 1 /\ Len(s_inodes_alone.out) > 1
    /\ c_walk.pc = "yielded" /\ c_walk.stack # <<>> /\ c_walk.left > 1
    /\ d_pc = "yielded" /\ Len(d_yield) = 1 /\ Len(s_dir_alone) = 2
    /\ i_read # None
    /\ c_pos \in RunlistLeaves(r_sb, d_inode.size, d_offset)

====
